---------------------------- MODULE Spec2Model ----------------------------
(***************************************************************************)
(* Verification model of the SVA-Terminal biometric matching engine:       *)
(* face similarity scoring, minutiae matching and deduplication, the       *)
(* enrollment / verification request flows and the overall status rule.    *)
(*                                                                         *)
(* Numbers.  Face encodings are vectors of small integers.  A similarity   *)
(* is kept exactly, as a value (a + s*sqrt(p/q)) / b with s in {-1,0,1}    *)
(* and p/q in lowest terms, so that equality of the records is equality of *)
(* the real numbers computed by the same pipeline.  Minutiae coordinates,  *)
(* angles are integers; a quality is in tenths (7 is 0.7).                 *)
(***************************************************************************)
EXTENDS Integers, Sequences, FiniteSets, TLC

(***************************************************************************)
(* Bounds of the model                                                     *)
(***************************************************************************)
MaxDim == 2          \* longest face encoding drawn as an input
MaxPoints == 3       \* longest minutiae list drawn as an input
MaxScale == 2        \* largest scale factor k tried in A versus k*A

(***************************************************************************)
(* Program constants                                                       *)
(***************************************************************************)
FaceThresholdNum == 6      \* compare_face_encodings threshold 0.6 = 6/10
ThresholdDen == 10
FpThresholdNum == 7        \* compare_fingerprint_templates threshold 0.7
MatchTolerance == 10       \* tolerance = 10.0 pixels
AngleTolerance == 30       \* angle_tolerance = 30.0 degrees
DedupTolerance == 5        \* tolerance = 5.0 pixels
FullCircle == 360

VARIABLES
    encoding1, encoding2,  \* the two arguments of compare_face_encodings
    face_pc,               \* "input" | "compared"
    face_result,           \* the dictionary compare_face_encodings returned
    points1, points2,      \* minutiae lists of template1 and template2
    min_pc,                \* "input" | "compared" | "dedup1" | "dedup2"
    fp_result,             \* the dictionary compare_fingerprint_templates returned
    unique1, unique2,      \* _remove_duplicate_minutiae applied once / twice
    student,               \* the Student row: face_encoding, fingerprint_template
    camera,                \* FaceRecognitionService.camera: "none" | "open" | "dead"
    scanner_initialized,   \* FingerprintService.scanner_initialized
    last,                  \* the last request served and its response
    fuse_templates,        \* the templates handed to _combine_templates
    fuse_encodings,        \* the encodings averaged by enroll_face
    fuse_pc,               \* "input" | "combined" | "fused"
    combined,              \* what _combine_templates returned
    mean_encoding,         \* np.mean(encodings, axis=0).tolist()
    codec_input,           \* the face encoding given to encode_face_data
    codec_text,            \* the text kept in the face_encoding column
    codec_pc,              \* "input" | "encoded" | "tampered" | "decoded" | "verified"
    codec_decoded,         \* what decode_face_data returned
    codec_result,          \* what verify_face returned for the stored text
    device_opens,          \* whether cv2.VideoCapture(0) can be opened
    calls,                 \* the calls made on the two services, in order
    thread_pc,             \* position of each concurrent request in a capture
    thread_dev,            \* the service each concurrent request captures on
    handle_inits,          \* initializations of each handle, per service
    landmark_count,        \* len(landmarks.landmark) of the face mesh result
    face_found,            \* whether results.multi_face_landmarks is non-empty
    extract_pc,            \* "input" | "extracted"
    extracted,             \* what extract_face_encoding returned
    assessed_image,        \* the captured image given to _assess_fingerprint_quality
    assessed_points,       \* the minutiae given to _assess_template_quality
    image_scores,          \* the scores of successive assessments of the image
    template_scores,       \* the scores of successive assessments of the points
    enroll_service,        \* "face" | "fingerprint": the service enrolling
    enroll_n,              \* num_samples of the enrollment call
    enroll_outcomes,       \* what each sample comes to: "ok" | "nocapture" | "noextract"
    enroll_i,              \* the loop variable i of the enrollment loop
    enroll_pc,             \* position of the enrollment call
    enroll_trace,          \* captures, extractions and pauses so far, in order
    template1, template2   \* the two arguments of compare_fingerprint_templates

faceVars == <<encoding1, encoding2, face_pc, face_result>>
minVars == <<points1, points2, min_pc, fp_result, unique1, unique2>>
sysVars == <<student, camera, scanner_initialized, last>>
fuseVars == <<fuse_templates, fuse_encodings, fuse_pc, combined, mean_encoding>>
codecVars == <<codec_input, codec_text, codec_pc, codec_decoded, codec_result>>
devVars == <<device_opens, calls>>
concVars == <<thread_pc, thread_dev, handle_inits>>
auxVars == <<fuseVars, codecVars, devVars, concVars>>
extractVars == <<landmark_count, face_found, extract_pc, extracted>>
qualityVars == <<assessed_image, assessed_points, image_scores, template_scores>>
enrollVars == <<enroll_service, enroll_n, enroll_outcomes, enroll_i, enroll_pc,
                enroll_trace>>
scorerVars == <<template1, template2>>
moreVars == <<extractVars, qualityVars, enrollVars, scorerVars>>
vars == <<faceVars, minVars, sysVars, auxVars, moreVars>>

(***************************************************************************)
(* Exact arithmetic                                                        *)
(***************************************************************************)
Abs(n) == IF n < 0 THEN -n ELSE n

Sgn(n) == IF n < 0 THEN -1 ELSE IF n = 0 THEN 0 ELSE 1

Min2(a, b) == IF a <= b THEN a ELSE b

RECURSIVE GCD(_, _)
GCD(a, b) == IF b = 0 THEN a ELSE GCD(b, a % b)

\* the real number 0.0
RealZero == [a |-> 0, b |-> 1, s |-> 0, p |-> 0, q |-> 1]

\* the real number num / sqrt(radicand), radicand > 0
RealQuot(num, radicand) ==
    LET g == GCD(num * num, radicand)
    IN  [a |-> 0, b |-> 1, s |-> Sgn(num), p |-> (num * num) \div g, q |-> radicand \div g]

\* (x + 1) / 2
RealHalfPlusOne(x) == [x EXCEPT !.a = x.a + x.b, !.b = 2 * x.b]

\* s*sqrt(p/q) > m/d, for d > 0
SurdGt(s, p, q, m, d) ==
    IF s > 0 THEN (m < 0) \/ (p * d * d > q * m * m)
    ELSE IF s = 0 THEN m < 0
    ELSE (m < 0) /\ (p * d * d < q * m * m)

\* x > n/d, for d > 0
RealGt(x, n, d) == SurdGt(x.s, x.p, x.q, x.b * n - x.a * d, d)

\* x = n/d, for d > 0
RealEq(x, n, d) ==
    LET m == x.b * n - x.a * d
    IN  /\ Sgn(m) = x.s
        /\ x.p * d * d = x.q * m * m

(***************************************************************************)
(* FaceRecognitionService.compare_face_encodings                           *)
(***************************************************************************)
RECURSIVE DotFrom(_, _, _)
DotFrom(u, v, i) == IF i > Len(u) THEN 0 ELSE u[i] * v[i] + DotFrom(u, v, i + 1)

\* np.dot of two 1-d arrays of the same length
Dot(u, v) == DotFrom(u, v, 1)

\* np.linalg.norm(u) squared
NormSq(u) == Dot(u, u)

\* a slip that divides by the first norm twice
CosineSimilarityOneNorm(enc1, enc2) ==
    IF NormSq(enc1) = 0 \/ NormSq(enc2) = 0
    THEN RealZero
    ELSE RealQuot(Dot(enc1, enc2), NormSq(enc1) * NormSq(enc1))

\* a slip that forgets to divide by the second norm
CosineSimilarityHalfNormalised(enc1, enc2) ==
    IF NormSq(enc1) = 0 \/ NormSq(enc2) = 0
    THEN RealZero
    ELSE RealQuot(Dot(enc1, enc2), NormSq(enc1))

\* similarity = dot_product / (norm1 * norm2), 0.0 when a norm is 0
CosineSimilarity(enc1, enc2) ==
    IF NormSq(enc1) = 0 \/ NormSq(enc2) = 0
    THEN RealZero
    ELSE RealQuot(Dot(enc1, enc2), NormSq(enc1) * NormSq(enc2))

CompareFailure(reason) ==
    [success |-> FALSE, error |-> reason, similarity |-> RealZero, match |-> FALSE]

CompareFaceEncodings(enc1, enc2) ==
    IF Len(enc1) = 0 \/ Len(enc2) = 0
    THEN CompareFailure("Invalid encodings provided")
    ELSE IF Len(enc1) # Len(enc2)
    THEN CompareFailure("shapes not aligned")      \* np.dot raises, caught
    ELSE LET similarity == RealHalfPlusOne(CosineSimilarity(enc1, enc2))
         IN  [success |-> TRUE, error |-> "",
              similarity |-> similarity,
              match |-> RealGt(similarity, FaceThresholdNum, ThresholdDen)]


(***************************************************************************)
(* FingerprintService: minutiae matching                                   *)
(***************************************************************************)
\* one minutia as _extract_minutiae_points builds it
Point(px, py, pangle, ptype, pquality) ==
    [x |-> px, y |-> py, angle |-> pangle, type |-> ptype, quality |-> pquality]

\* distance = np.sqrt(dx*dx + dy*dy); distance <= tolerance
WithinDistance(pa, pb, tolerance) ==
    LET dx == pa.x - pb.x
        dy == pa.y - pb.y
    IN  dx * dx + dy * dy <= tolerance * tolerance

\* a slip that leaves out the wrap-around at 360 degrees
AngleDiffNoWrap(a1, a2) == Abs(a1 - a2)

\* angle_diff = abs(a1 - a2); angle_diff = min(angle_diff, 360 - angle_diff)
AngleDiff(a1, a2) == Min2(Abs(a1 - a2), FullCircle - Abs(a1 - a2))

\* the condition of the inner loop under which matches is incremented
PointsMatch(p1, p2) ==
    /\ WithinDistance(p1, p2, MatchTolerance)
    /\ AngleDiff(p1.angle, p2.angle) <= AngleTolerance
    /\ p1.type = p2.type

\* inner loop "for p2 in points2": index of the point at which the loop
\* breaks, 0 when it runs to the end without a match
RECURSIVE FirstMatchFrom(_, _, _)
FirstMatchFrom(p1, pts2, j) ==
    IF j > Len(pts2) THEN 0
    ELSE IF PointsMatch(p1, pts2[j]) THEN j
    ELSE FirstMatchFrom(p1, pts2, j + 1)

FirstMatch(p1, pts2) == FirstMatchFrom(p1, pts2, 1)

\* outer loop "for p1 in points1": the value of matches after it
RECURSIVE CountMatchesFrom(_, _, _)
CountMatchesFrom(pts1, pts2, i) ==
    IF i > Len(pts1) THEN 0
    ELSE (IF FirstMatch(pts1[i], pts2) # 0 THEN 1 ELSE 0)
         + CountMatchesFrom(pts1, pts2, i + 1)

CountMatches(pts1, pts2) == CountMatchesFrom(pts1, pts2, 1)

\* _calculate_minutiae_similarity: the fraction num/den it returns
CalculateMinutiaeSimilarity(pts1, pts2) ==
    IF Len(pts1) = 0 \/ Len(pts2) = 0
    THEN [num |-> 0, den |-> 1]
    ELSE [num |-> CountMatches(pts1, pts2), den |-> Min2(Len(pts1), Len(pts2))]

FpCompareFailure(reason) ==
    [success |-> FALSE, error |-> reason, similarity |-> [num |-> 0, den |-> 1],
     match |-> FALSE, matched_points |-> 0]

\* compare_fingerprint_templates on two templates holding these point lists
CompareFingerprintTemplates(pts1, pts2) ==
    IF Len(pts1) = 0 \/ Len(pts2) = 0
    THEN FpCompareFailure("No minutiae points in templates")
    ELSE LET similarity == CalculateMinutiaeSimilarity(pts1, pts2)
         IN  [success |-> TRUE, error |-> "",
              similarity |-> similarity,
              match |-> similarity.num * ThresholdDen > FpThresholdNum * similarity.den,
              matched_points |->
                  (similarity.num * Min2(Len(pts1), Len(pts2))) \div similarity.den]

(***************************************************************************)
(* FingerprintService._remove_duplicate_minutiae                           *)
(***************************************************************************)
\* list.remove(x): drop the first element equal to x
RECURSIVE RemoveFirst(_, _)
RemoveFirst(list, x) ==
    IF Len(list) = 0 THEN list
    ELSE IF Head(list) = x THEN Tail(list)
    ELSE <<Head(list)>> \o RemoveFirst(Tail(list), x)

\* inner loop "for unique_point in unique_points": index of the first
\* retained point within the tolerance of point, 0 when there is none
RECURSIVE FirstDuplicateFrom(_, _, _)
FirstDuplicateFrom(point, unique_points, k) ==
    IF k > Len(unique_points) THEN 0
    ELSE IF WithinDistance(point, unique_points[k], DedupTolerance) THEN k
    ELSE FirstDuplicateFrom(point, unique_points, k + 1)

\* one iteration of "for point in points"
DedupStep(unique_points, point) ==
    LET k == FirstDuplicateFrom(point, unique_points, 1)
    IN  IF k = 0 THEN Append(unique_points, point)
        ELSE IF point.quality > unique_points[k].quality
        THEN Append(RemoveFirst(unique_points, unique_points[k]), point)
        ELSE unique_points

RECURSIVE DedupFrom(_, _, _)
DedupFrom(points, i, unique_points) ==
    IF i > Len(points) THEN unique_points
    ELSE DedupFrom(points, i + 1, DedupStep(unique_points, points[i]))

RemoveDuplicateMinutiae(points) == DedupFrom(points, 1, <<>>)


(***************************************************************************)
(* Stored templates: the text kept in Student.face_encoding and            *)
(* Student.fingerprint_template.  A text is a base64 text of some bytes,   *)
(* a text that is not base64, or absent; bytes are the UTF-8 JSON of a     *)
(* value or raw bytes that are not JSON.                                   *)
(***************************************************************************)
RatMake(n, d) == LET g == GCD(n, d) IN [num |-> n \div g, den |-> d \div g]

RatAdd(r1, r2) == RatMake(r1.num * r2.den + r2.num * r1.den, r1.den * r2.den)

RatZero == [num |-> 0, den |-> 1]

\* the dictionary {}
EmptyDict ==
    [is_empty |-> TRUE, minutiae_points |-> <<>>, quality_score |-> RatZero,
     combined_from |-> 0]

JsonList(enc) == [type |-> "list", list |-> enc, dict |-> EmptyDict]
JsonDict(tpl) == [type |-> "dict", list |-> <<>>, dict |-> tpl]
JsonNaN == [type |-> "nan", list |-> <<>>, dict |-> EmptyDict]
NotJson == [type |-> "bytes", list |-> <<>>, dict |-> EmptyDict]

\* json.dumps(value).encode('utf-8')
JsonDumps(value) == [fmt |-> "json", value |-> value]

\* b"dummy_fingerprint_template_data"
DummyFingerprintBytes == [fmt |-> "raw", value |-> NotJson]

\* base64.b64encode(bytes).decode('utf-8')
B64Encode(bytes) == [kind |-> "b64", bytes |-> bytes]

NoText == [kind |-> "none", bytes |-> DummyFingerprintBytes]
GarbageText == [kind |-> "garbage", bytes |-> DummyFingerprintBytes]

\* "if not student.face_encoding"
IsStored(text) == text.kind # "none"

\* json.loads(base64.b64decode(text).decode('utf-8')) under try/except
DecodeStored(text) ==
    IF text.kind = "b64" /\ text.bytes.fmt = "json"
    THEN [ok |-> TRUE, value |-> text.bytes.value]
    ELSE [ok |-> FALSE, value |-> NotJson]

(***************************************************************************)
(* Capture and extraction                                                  *)
(***************************************************************************)
\* initialize_camera: self.camera is assigned before isOpened() is tested
InitializeCamera(opens) ==
    [ok |-> opens, camera |-> IF opens THEN "open" ELSE "dead"]

CaptureFailure(reason, cam) ==
    [success |-> FALSE, error |-> reason, camera |-> cam]

\* capture_face_from_camera.  cam: "none" (self.camera is None), "open",
\* "dead" (a VideoCapture object that did not open).  dev: what the device
\* does during this call.
CaptureFaceFromCamera(cam, dev) ==
    LET init == IF cam = "none" THEN InitializeCamera(dev.opens)
                ELSE [ok |-> TRUE, camera |-> cam]
    IN  IF ~init.ok
        THEN CaptureFailure("Camera not available", init.camera)
        ELSE IF init.camera = "dead" \/ dev.frame = "noframe"
        THEN CaptureFailure("Failed to capture frame from camera", init.camera)
        ELSE IF dev.frame = "noface"
        THEN CaptureFailure("No face detected in captured frame", init.camera)
        ELSE [success |-> TRUE, error |-> "", camera |-> init.camera]

\* capture_fingerprint_image; quality is the image quality in tenths
CaptureFingerprintImage(quality) ==
    IF quality < 6
    THEN [success |-> FALSE, error |-> "Poor fingerprint quality", recommendations |-> 4]
    ELSE [success |-> TRUE, error |-> "", recommendations |-> 0]

RECURSIVE SumQuality(_, _)
SumQuality(points, i) ==
    IF i > Len(points) THEN 0 ELSE points[i].quality + SumQuality(points, i + 1)

\* _assess_template_quality: (min(n / 20, 1.0) + mean quality) / 2
AssessTemplateQuality(points) ==
    IF Len(points) = 0 THEN RatZero
    ELSE RatMake(Min2(Len(points), 20) * 10 * Len(points) + 20 * SumQuality(points, 1),
                 400 * Len(points))

\* extract_fingerprint_template, given the minutiae found in the image
ExtractFingerprintTemplate(points) ==
    [is_empty |-> FALSE, minutiae_points |-> points,
     quality_score |-> AssessTemplateQuality(points), combined_from |-> 0]

(***************************************************************************)
(* Template fusion                                                         *)
(***************************************************************************)
RECURSIVE SumAt(_, _, _)
SumAt(encodings, k, i) ==
    IF k > Len(encodings) THEN 0 ELSE encodings[k][i] + SumAt(encodings, k + 1, i)

\* np.mean(encodings, axis=0).tolist(); the sampled values are multiples of
\* every sample count, so the division is exact
MeanEncoding(encodings) ==
    [i \in 1..Len(encodings[1]) |-> SumAt(encodings, 1, i) \div Len(encodings)]

RECURSIVE AllPoints(_, _)
AllPoints(templates, k) ==
    IF k > Len(templates) THEN <<>>
    ELSE templates[k].minutiae_points \o AllPoints(templates, k + 1)

RECURSIVE SumQualityScores(_, _)
SumQualityScores(templates, k) ==
    IF k > Len(templates) THEN RatZero
    ELSE RatAdd(templates[k].quality_score, SumQualityScores(templates, k + 1))

\* a slip that leaves out the single-template shortcut
CombineTemplatesAlwaysMerging(templates) ==
    IF Len(templates) = 0 THEN EmptyDict
    ELSE LET total == SumQualityScores(templates, 1)
         IN  [is_empty |-> FALSE,
              minutiae_points |-> RemoveDuplicateMinutiae(AllPoints(templates, 1)),
              quality_score |-> RatMake(total.num, total.den * Len(templates)),
              combined_from |-> Len(templates)]

\* _combine_templates
CombineTemplates(templates) ==
    IF Len(templates) = 0 THEN EmptyDict
    ELSE IF Len(templates) = 1 THEN templates[1]
    ELSE LET total == SumQualityScores(templates, 1)
         IN  [is_empty |-> FALSE,
              minutiae_points |-> RemoveDuplicateMinutiae(AllPoints(templates, 1)),
              quality_score |-> RatMake(total.num, total.den * Len(templates)),
              combined_from |-> Len(templates)]

(***************************************************************************)
(* Samples a device can deliver in the request flows                       *)
(***************************************************************************)
MaxSamples == 2      \* largest num_samples of an enrollment request

\* one encoding unit is 1/24: every sample count up to 4 divides it
EncodingUnit == 4 * 3 * 2

NoEncoding == <<>>   \* extract_face_encoding / capture_face returned None

FaceSamples == {<<EncodingUnit \div 2, 0>>, <<0, EncodingUnit \div 2>>}

DeviceWorks == [opens |-> TRUE, frame |-> "ok"]

\* what one capture + extraction of a face sample can come to
FaceSampleOutcomes ==
    {[dev |-> DeviceWorks, encoding |-> e] : e \in FaceSamples \cup {NoEncoding}}
    \cup {[dev |-> [opens |-> TRUE, frame |-> f], encoding |-> NoEncoding] :
             f \in {"noframe", "noface"}}
    \cup {[dev |-> [opens |-> FALSE, frame |-> "ok"], encoding |-> NoEncoding]}

PtA == Point(0, 0, 5, "ridge_ending", 5)
PtC == Point(4, 0, 20, "ridge_ending", 7)
PtD == Point(20, 0, 180, "bifurcation", 7)

NoPoints == <<>>     \* _extract_minutiae_points found nothing

FingerSamples == {<<PtA, PtC>>, <<PtD>>}

\* what one capture + extraction of a fingerprint sample can come to
FingerSampleOutcomes ==
    {[quality |-> 8, points |-> pts] : pts \in FingerSamples \cup {NoPoints}}
    \cup {[quality |-> 5, points |-> NoPoints]}

\* the demo templates verify_fingerprint stores when none is enrolled
MockTemplates ==
    {[is_empty |-> FALSE,
      minutiae_points |-> <<Point(0, 0, 5, "ridge_ending", 9)>>,
      quality_score |-> RatMake(85, 100), combined_from |-> 0]}

(***************************************************************************)
(* Results                                                                 *)
(***************************************************************************)
NoComparison == [success |-> FALSE, match |-> FALSE, error |-> ""]

Comparison(cmp) == [success |-> cmp.success, match |-> cmp.match, error |-> cmp.error]

\* a per-modality verification result; steps lists the pipeline steps run
NoModality ==
    [present |-> FALSE, success |-> FALSE, error |-> "", vr |-> NoComparison,
     steps |-> <<>>]

ModalityFailure(reason, steps) ==
    [present |-> TRUE, success |-> FALSE, error |-> reason, vr |-> NoComparison,
     steps |-> steps]

(***************************************************************************)
(* FaceRecognitionService / FingerprintService: enrollment, verification   *)
(***************************************************************************)
EnrollFailure(reason, cam, sample, extractions) ==
    [success |-> FALSE, error |-> reason, value |-> NotJson, camera |-> cam,
     failed_sample |-> sample, captures |-> sample, extractions |-> extractions,
     pauses |-> sample - 1]

\* the loop of FaceRecognitionService.enroll_face from sample i on
RECURSIVE EnrollFaceFrom(_, _, _, _)
EnrollFaceFrom(cam, outcomes, i, encodings) ==
    IF i > Len(outcomes)
    THEN [success |-> TRUE, error |-> "",
          value |-> IF Len(encodings) = 0 THEN JsonNaN
                    ELSE JsonList(MeanEncoding(encodings)),
          camera |-> cam, failed_sample |-> 0,
          captures |-> Len(outcomes), extractions |-> Len(outcomes),
          pauses |-> IF Len(outcomes) = 0 THEN 0 ELSE Len(outcomes) - 1]
    ELSE LET cap == CaptureFaceFromCamera(cam, outcomes[i].dev)
         IN  IF ~cap.success
             THEN EnrollFailure("Failed to capture sample", cap.camera, i, i - 1)
             ELSE IF outcomes[i].encoding = NoEncoding
             THEN EnrollFailure("Failed to extract face encoding from sample",
                                cap.camera, i, i)
             ELSE EnrollFaceFrom(cap.camera, outcomes, i + 1,
                                 Append(encodings, outcomes[i].encoding))

EnrollFace(cam, outcomes) == EnrollFaceFrom(cam, outcomes, 1, <<>>)

\* index of the first sample whose capture or extraction fails, 0 if none
RECURSIVE FirstFailedFrom(_, _)
FirstFailedFrom(outcomes, i) ==
    IF i > Len(outcomes) THEN 0
    ELSE IF outcomes[i].quality < 6 \/ outcomes[i].points = NoPoints THEN i
    ELSE FirstFailedFrom(outcomes, i + 1)

\* a slip that skips a failed sample and goes on with the next one
RECURSIVE EnrollFingerprintFromSkipping(_, _, _)
EnrollFingerprintFromSkipping(outcomes, i, templates) ==
    IF i > Len(outcomes)
    THEN [success |-> TRUE, error |-> "",
          value |-> JsonDict(CombineTemplates(templates)),
          camera |-> "none", failed_sample |-> FirstFailedFrom(outcomes, 1),
          captures |-> Len(outcomes), extractions |-> Len(templates),
          pauses |-> IF Len(outcomes) = 0 THEN 0 ELSE Len(outcomes) - 1]
    ELSE IF outcomes[i].quality < 6 \/ outcomes[i].points = NoPoints
    THEN EnrollFingerprintFromSkipping(outcomes, i + 1, templates)
    ELSE EnrollFingerprintFromSkipping(outcomes, i + 1,
             Append(templates, ExtractFingerprintTemplate(outcomes[i].points)))

\* the loop of FingerprintService.enroll_fingerprint from sample i on
RECURSIVE EnrollFingerprintFrom(_, _, _)
EnrollFingerprintFrom(outcomes, i, templates) ==
    IF i > Len(outcomes)
    THEN [success |-> TRUE, error |-> "",
          value |-> JsonDict(CombineTemplates(templates)),
          camera |-> "none", failed_sample |-> 0,
          captures |-> Len(outcomes), extractions |-> Len(outcomes),
          pauses |-> IF Len(outcomes) = 0 THEN 0 ELSE Len(outcomes) - 1]
    ELSE IF ~CaptureFingerprintImage(outcomes[i].quality).success
    THEN EnrollFailure("Failed to capture sample", "none", i, i - 1)
    ELSE IF outcomes[i].points = NoPoints
    THEN EnrollFailure("Failed to extract template from sample", "none", i, i)
    ELSE EnrollFingerprintFrom(outcomes, i + 1,
             Append(templates, ExtractFingerprintTemplate(outcomes[i].points)))

EnrollFingerprint(outcomes) == EnrollFingerprintFrom(outcomes, 1, <<>>)

\* compare_face_encodings on a decoded JSON value: a value that is not a
\* list of numbers ends in the except branch
CompareStoredFace(value, encoding) ==
    IF value.type = "list" THEN CompareFaceEncodings(value.list, encoding)
    ELSE CompareFailure("exception")

\* compare_fingerprint_templates on a decoded JSON value
CompareStoredFingerprint(value, template) ==
    IF value.type # "dict" THEN FpCompareFailure("exception")
    ELSE IF value.dict.is_empty THEN FpCompareFailure("Invalid templates provided")
    ELSE CompareFingerprintTemplates(value.dict.minutiae_points, template.minutiae_points)

\* FaceRecognitionService.verify_face
ServiceVerifyFace(stored, cam, outcome) ==
    LET cap == CaptureFaceFromCamera(cam, outcome.dev)
        dec == DecodeStored(stored)
    IN  IF ~cap.success
        THEN ModalityFailure("Failed to capture face", <<"capture">>)
        ELSE IF outcome.encoding = NoEncoding
        THEN ModalityFailure("Failed to extract face encoding from captured image",
                             <<"capture", "extract">>)
        ELSE IF ~dec.ok
        THEN ModalityFailure("Invalid stored face encoding format",
                             <<"capture", "extract", "decode">>)
        ELSE [present |-> TRUE, success |-> TRUE, error |-> "",
              vr |-> Comparison(CompareStoredFace(dec.value, outcome.encoding)),
              steps |-> <<"capture", "extract", "decode", "score">>]

\* FingerprintService.verify_fingerprint
ServiceVerifyFingerprint(stored, outcome) ==
    LET dec == DecodeStored(stored)
    IN  IF ~CaptureFingerprintImage(outcome.quality).success
        THEN ModalityFailure("Failed to capture fingerprint", <<"capture">>)
        ELSE IF outcome.points = NoPoints
        THEN ModalityFailure("Failed to extract template from captured fingerprint",
                             <<"capture", "extract">>)
        ELSE IF ~dec.ok
        THEN ModalityFailure("Invalid stored fingerprint template format",
                             <<"capture", "extract", "decode">>)
        ELSE [present |-> TRUE, success |-> TRUE, error |-> "",
              vr |-> Comparison(CompareStoredFingerprint(
                         dec.value, ExtractFingerprintTemplate(outcome.points))),
              steps |-> <<"capture", "extract", "decode", "score">>]

(***************************************************************************)
(* BiometricUtils / MockBiometricService                                   *)
(***************************************************************************)
RECURSIVE DistSqFrom(_, _, _)
DistSqFrom(u, v, i) ==
    IF i > Len(u) THEN 0
    ELSE (u[i] - v[i]) * (u[i] - v[i]) + DistSqFrom(u, v, i + 1)

\* BiometricUtils.compare_face_encodings: np.linalg.norm(known - unknown)
\* <= 0.6, False when the subtraction raises or the value is not numeric
BasicCompareFaceEncodings(value, unknown) ==
    /\ value.type = "list"
    /\ Len(value.list) = Len(unknown)
    /\ 25 * DistSqFrom(value.list, unknown, 1) <= 9 * EncodingUnit * EncodingUnit

\* MockBiometricService.verify_face
MockVerifyFace(stored, captured) ==
    LET dec == DecodeStored(stored)
    IN  IF ~IsStored(stored)
        THEN ModalityFailure("No face encoding stored for student", <<>>)
        ELSE IF ~dec.ok
        THEN ModalityFailure("Invalid stored face encoding", <<"decode">>)
        ELSE [present |-> TRUE, success |-> TRUE, error |-> "",
              vr |-> [success |-> TRUE,
                      match |-> BasicCompareFaceEncodings(dec.value, captured),
                      error |-> ""],
              steps |-> <<"decode", "score">>]

\* MockBiometricService.verify_fingerprint; decode_fingerprint_template
\* is base64 only, compare_fingerprint_templates is equality of bytes
MockVerifyFingerprint(stored, captured) ==
    IF ~IsStored(stored)
    THEN ModalityFailure("No fingerprint template stored for student", <<>>)
    ELSE IF stored.kind # "b64"
    THEN ModalityFailure("Invalid stored fingerprint template", <<"decode">>)
    ELSE [present |-> TRUE, success |-> TRUE, error |-> "",
          vr |-> [success |-> TRUE, match |-> (stored.bytes = captured), error |-> ""],
          steps |-> <<"decode", "score">>]

\* decode_face_data returned None
NoDecoded == [ok |-> FALSE, value |-> <<>>]

(***************************************************************************)
(* The stored text, character by character.  A number of an encoding is    *)
(* kept in tenths (12 is 1.2); a JSON text and a byte string are sequences *)
(* of ASCII codes; a base64 text is a sequence of alphabet indices 0..63,  *)
(* Pad for '=' and Stray for a character outside the alphabet.             *)
(***************************************************************************)
Pad == 64
Stray == 65

RECURSIVE DigitsOf(_)
DigitsOf(n) == IF n < 10 THEN <<48 + n>> ELSE Append(DigitsOf(n \div 10), 48 + (n % 10))

\* a slip that loses the sign of a number
NumberTextUnsigned(v) == DigitsOf(Abs(v) \div 10) \o <<46, 48 + (Abs(v) % 10)>>

\* float.__repr__ as json.dumps writes it: "-1.2", "0.0", "10.5"
NumberText(v) ==
    (IF v < 0 THEN <<45>> ELSE <<>>)
        \o DigitsOf(Abs(v) \div 10) \o <<46, 48 + (Abs(v) % 10)>>

RECURSIVE ItemsText(_, _)
ItemsText(list, i) ==
    IF i > Len(list) THEN <<>>
    ELSE (IF i > 1 THEN <<44, 32>> ELSE <<>>) \o NumberText(list[i])
             \o ItemsText(list, i + 1)

\* json.dumps(face_list): "[" + ", ".join(...) + "]"
JsonDumpsList(list) == <<91>> \o ItemsText(list, 1) \o <<93>>

\* str.encode('utf-8') of a text of ASCII characters
Utf8Encode(text) == [i \in DOMAIN text |-> text[i]]

\* bytes.decode('utf-8'): a byte above 127 does not start an ASCII character
Utf8Decode(bytes) ==
    IF \A i \in DOMAIN bytes : bytes[i] < 128
    THEN [ok |-> TRUE, text |-> bytes]
    ELSE [ok |-> FALSE, text |-> <<>>]

\* base64.b64encode: three bytes give four characters, the tail is padded
RECURSIVE B64EncodeBytes(_)
B64EncodeBytes(bytes) ==
    IF Len(bytes) = 0 THEN <<>>
    ELSE IF Len(bytes) = 1
    THEN <<bytes[1] \div 4, (bytes[1] % 4) * 16, Pad, Pad>>
    ELSE IF Len(bytes) = 2
    THEN <<bytes[1] \div 4, (bytes[1] % 4) * 16 + bytes[2] \div 16,
           (bytes[2] % 16) * 4, Pad>>
    ELSE <<bytes[1] \div 4, (bytes[1] % 4) * 16 + bytes[2] \div 16,
           (bytes[2] % 16) * 4 + bytes[3] \div 64, bytes[3] % 64>>
         \o B64EncodeBytes(SubSeq(bytes, 4, Len(bytes)))

\* base64.b64decode with validate=False (binascii.a2b_base64): characters
\* outside the alphabet are skipped, a complete pad sequence ends the
\* input, an incomplete last group is 'Incorrect padding'
RECURSIVE A2bBase64(_, _, _, _, _, _)
A2bBase64(text, i, quad_pos, leftchar, pads, out) ==
    IF i > Len(text)
    THEN IF quad_pos # 0 THEN [ok |-> FALSE, bytes |-> <<>>]
         ELSE [ok |-> TRUE, bytes |-> out]
    ELSE IF text[i] = Pad
    THEN IF quad_pos >= 2 /\ quad_pos + pads + 1 >= 4
         THEN [ok |-> TRUE, bytes |-> out]
         ELSE A2bBase64(text, i + 1, quad_pos, leftchar,
                        IF quad_pos >= 2 THEN pads + 1 ELSE pads, out)
    ELSE IF text[i] > Pad
    THEN A2bBase64(text, i + 1, quad_pos, leftchar, pads, out)
    ELSE IF quad_pos = 0
    THEN A2bBase64(text, i + 1, 1, text[i], 0, out)
    ELSE IF quad_pos = 1
    THEN A2bBase64(text, i + 1, 2, text[i] % 16, 0,
                   Append(out, leftchar * 4 + text[i] \div 16))
    ELSE IF quad_pos = 2
    THEN A2bBase64(text, i + 1, 3, text[i] % 4, 0,
                   Append(out, leftchar * 16 + text[i] \div 4))
    ELSE A2bBase64(text, i + 1, 0, 0, 0, Append(out, leftchar * 64 + text[i]))

B64DecodeText(text) == A2bBase64(text, 1, 0, 0, 0, <<>>)

\* json.loads, for the texts the model writes: a list of numbers with at
\* most one digit after the point, spaces allowed between the tokens
RECURSIVE SkipSpaces(_, _)
SkipSpaces(text, i) ==
    IF i <= Len(text) /\ text[i] = 32 THEN SkipSpaces(text, i + 1) ELSE i

RECURSIVE ScanDigits(_, _, _, _)
ScanDigits(text, i, value, count) ==
    IF i <= Len(text) /\ text[i] \in 48..57
    THEN ScanDigits(text, i + 1, value * 10 + (text[i] - 48), count + 1)
    ELSE [pos |-> i, value |-> value, count |-> count]

ParseFailure == [ok |-> FALSE, pos |-> 0, value |-> <<>>]

ParseNumber(text, i) ==
    LET negative == i <= Len(text) /\ text[i] = 45
        start == IF negative THEN i + 1 ELSE i
        whole == ScanDigits(text, start, 0, 0)
        has_fraction == whole.pos <= Len(text) /\ text[whole.pos] = 46
        fraction == IF has_fraction THEN ScanDigits(text, whole.pos + 1, 0, 0)
                    ELSE [pos |-> whole.pos, value |-> 0, count |-> 1]
        magnitude == whole.value * 10 + fraction.value
    IN  IF whole.count = 0 \/ (whole.count > 1 /\ text[start] = 48)
           \/ fraction.count # 1
        THEN [ok |-> FALSE, pos |-> i, value |-> 0]
        ELSE [ok |-> TRUE, pos |-> fraction.pos,
              value |-> IF negative THEN 0 - magnitude ELSE magnitude]

RECURSIVE ParseItems(_, _, _)
ParseItems(text, i, items) ==
    LET number == ParseNumber(text, SkipSpaces(text, i))
        after == SkipSpaces(text, number.pos)
    IN  IF ~number.ok \/ after > Len(text) THEN ParseFailure
        ELSE IF text[after] = 44
        THEN ParseItems(text, after + 1, Append(items, number.value))
        ELSE IF text[after] = 93
        THEN [ok |-> TRUE, pos |-> after + 1, value |-> Append(items, number.value)]
        ELSE ParseFailure

JsonLoads(text) ==
    LET open == SkipSpaces(text, 1)
        first == SkipSpaces(text, open + 1)
        parsed == IF open > Len(text) \/ text[open] # 91 THEN ParseFailure
                  ELSE IF first <= Len(text) /\ text[first] = 93
                  THEN [ok |-> TRUE, pos |-> first + 1, value |-> <<>>]
                  ELSE ParseItems(text, open + 1, <<>>)
    IN  IF parsed.ok /\ SkipSpaces(text, parsed.pos) = Len(text) + 1
        THEN [ok |-> TRUE, value |-> parsed.value]
        ELSE NoDecoded

\* json.loads(base64.b64decode(text).decode('utf-8')) inside try / except
LoadStoredList(text) ==
    LET raw == B64DecodeText(text)
        chars == IF raw.ok THEN Utf8Decode(raw.bytes) ELSE [ok |-> FALSE, text |-> <<>>]
    IN  IF chars.ok THEN JsonLoads(chars.text) ELSE NoDecoded

\* BiometricUtils.encode_face_data
EncodeFaceData(face_encoding) ==
    B64EncodeBytes(Utf8Encode(JsonDumpsList(face_encoding)))

\* BiometricUtils.decode_face_data
DecodeFaceData(encoded_face) ==
    IF Len(encoded_face) = 0 THEN NoDecoded ELSE LoadStoredList(encoded_face)

\* FaceRecognitionService.verify_face from "Decode stored encoding" on,
\* given the encoding extracted from the captured image
VerifyFaceAgainstText(stored_encoding, current_encoding) ==
    LET dec == LoadStoredList(stored_encoding)
    IN  IF ~dec.ok
        THEN ModalityFailure("Invalid stored face encoding format",
                             <<"capture", "extract", "decode">>)
        ELSE [present |-> TRUE, success |-> TRUE, error |-> "",
              vr |-> Comparison(CompareFaceEncodings(dec.value, current_encoding)),
              steps |-> <<"capture", "extract", "decode", "score">>]

(***************************************************************************)
(* Overall status                                                          *)
(***************************************************************************)
\* verify_student (biometric_enhanced.py): the if / elif chain
VerificationStatus(face_verified, fingerprint_verified) ==
    IF face_verified /\ fingerprint_verified THEN "approved"
    ELSE IF face_verified /\ ~fingerprint_verified THEN "partial"
    ELSE IF ~face_verified /\ fingerprint_verified THEN "partial"
    ELSE "rejected"

\* a slip that tests only the face flag in the second branch
OverallStatusFaceOnly(face_verified, fingerprint_verified) ==
    IF face_verified /\ fingerprint_verified THEN "approved"
    ELSE IF face_verified THEN "partial"
    ELSE "rejected"

\* verify_student_biometrics (biometric.py): the if / elif chain
OverallStatus(face_verified, fingerprint_verified) ==
    IF face_verified /\ fingerprint_verified THEN "approved"
    ELSE IF face_verified \/ fingerprint_verified THEN "partial"
    ELSE "rejected"

\* a slip that leaves out the test of 'match'
ModalityVerifiedWithoutMatch(result) == result.present /\ result.vr.success

\* result and result.get('success', False) and result.get('match', False)
ModalityVerified(result) == result.present /\ result.vr.success /\ result.vr.match

(***************************************************************************)
(* The request flows: one Student row, the two shared services, and the    *)
(* routes of biometric.py and biometric_enhanced.py, one action each.      *)
(* A request's inputs are its JSON body and what the devices deliver.      *)
(***************************************************************************)
NoRequest ==
    [route |-> "none", http |-> 0, error |-> "", status |-> "",
     face_verified |-> FALSE, fingerprint_verified |-> FALSE,
     face |-> NoModality, fingerprint |-> NoModality,
     pre |-> [face_encoding |-> NoText, fingerprint_template |-> NoText],
     num_samples |-> 0, failed_sample |-> 0,
     captures |-> 0, extractions |-> 0, pauses |-> 0,
     accepted_quality |-> <<>>]

SysIdle ==
    /\ student = [face_encoding |-> NoText, fingerprint_template |-> NoText]
    /\ camera = "none"
    /\ scanner_initialized = FALSE
    /\ last = NoRequest

(***************************************************************************)
(* Inputs of the scorers                                                   *)
(***************************************************************************)
FaceVals == (0 - MaxScale) .. MaxScale

\* face encodings of every length up to MaxDim (the empty one included)
Encodings == UNION {[1..n -> FaceVals] : n \in 0..MaxDim}

Scale(k, enc) == [i \in 1..Len(enc) |-> k * enc[i]]

\* four minutiae: three ridge endings 4 units apart on a line, of rising
\* quality, and a distant bifurcation
PointPool ==
    { Point(0, 0, 5, "ridge_ending", 5),
      Point(4, 0, 20, "ridge_ending", 7),
      Point(8, 0, 355, "ridge_ending", 9),
      Point(20, 0, 180, "bifurcation", 7) }

PoolLists == UNION {[1..n -> PointPool] : n \in 0..MaxPoints}

\* single points on a grid that puts pairs on both sides of each tolerance
GridPoints ==
    { Point(px, py, pangle, ptype, 7) :
        px \in {0, 6, 10}, py \in {0, 8}, pangle \in {5, 35, 36, 355},
        ptype \in {"ridge_ending", "bifurcation"} }

GridLists == {<<pt>> : pt \in GridPoints}

\* three ridge endings 3 units apart on a line, the first two of equal
\* quality
TiePool ==
    { Point(0, 0, 5, "ridge_ending", 7),
      Point(3, 0, 5, "ridge_ending", 7),
      Point(6, 0, 5, "ridge_ending", 9) }

TieLists == UNION {[1..n -> TiePool] : n \in 1..MaxPoints}

NoFaceResult == CompareFailure("")
NoFpResult == FpCompareFailure("")

FaceIdle ==
    /\ encoding1 = <<>>
    /\ encoding2 = <<>>
    /\ face_pc = "idle"
    /\ face_result = <<NoFaceResult, NoFaceResult>>

MinIdle ==
    /\ points1 = <<>>
    /\ points2 = <<>>
    /\ min_pc = "idle"
    /\ fp_result = NoFpResult
    /\ unique1 = <<>>
    /\ unique2 = <<>>

MaxThreads == 2      \* requests running at the same time
MaxCalls == 4        \* calls made in a row on one service instance

Threads == 1..MaxThreads

FuseIdle ==
    /\ fuse_templates = <<>>
    /\ fuse_encodings = <<>>
    /\ fuse_pc = "idle"
    /\ combined = EmptyDict
    /\ mean_encoding = <<>>

CodecIdle ==
    /\ codec_input = <<>>
    /\ codec_text = <<>>
    /\ codec_pc = "idle"
    /\ codec_decoded = NoDecoded
    /\ codec_result = NoModality

DevIdle ==
    /\ device_opens = TRUE
    /\ calls = <<>>

ConcIdle ==
    /\ thread_pc = [t \in Threads |-> "idle"]
    /\ thread_dev = [t \in Threads |-> "none"]
    /\ handle_inits = [camera |-> 0, scanner |-> 0]

AuxIdle == FuseIdle /\ CodecIdle /\ DevIdle /\ ConcIdle

\* extract_face_encoding returned None
NoExtracted == [ok |-> FALSE, encoding |-> <<>>]

ExtractIdle ==
    /\ landmark_count = 0
    /\ face_found = FALSE
    /\ extract_pc = "input"
    /\ extracted = NoExtracted

QualityIdle ==
    /\ assessed_image = 0
    /\ assessed_points = <<>>
    /\ image_scores = <<>>
    /\ template_scores = <<>>

EnrollIdle ==
    /\ enroll_service = "face"
    /\ enroll_n = 0
    /\ enroll_outcomes = <<>>
    /\ enroll_i = 0
    /\ enroll_pc = "call"
    /\ enroll_trace = <<>>

\* a template argument that is None
NoneTemplate == [is_none |-> TRUE, dict |-> EmptyDict]

ScorerIdle ==
    /\ template1 = NoneTemplate
    /\ template2 = NoneTemplate

MoreIdle == ExtractIdle /\ QualityIdle /\ EnrollIdle /\ ScorerIdle

(***************************************************************************)
(* SpecFace: compare_face_encodings applied to every pair of encodings,    *)
(* then to the same pair in the other order                                *)
(***************************************************************************)
InitFace ==
    /\ MoreIdle
    /\ encoding1 \in Encodings
    /\ encoding2 \in Encodings
    /\ face_pc = "input"
    /\ face_result = <<NoFaceResult, NoFaceResult>>
    /\ MinIdle
    /\ SysIdle
    /\ AuxIdle

CompareFaces ==
    /\ face_pc = "input"
    /\ face_result' = <<CompareFaceEncodings(encoding1, encoding2), NoFaceResult>>
    /\ face_pc' = "compared"
    /\ UNCHANGED <<encoding1, encoding2, minVars, sysVars, auxVars, moreVars>>

CompareFacesSwapped ==
    /\ face_pc = "compared"
    /\ face_result' = <<face_result[1], CompareFaceEncodings(encoding2, encoding1)>>
    /\ face_pc' = "swapped"
    /\ UNCHANGED <<encoding1, encoding2, minVars, sysVars, auxVars, moreVars>>

NextFace == CompareFaces \/ CompareFacesSwapped

SpecFace == InitFace /\ [][NextFace]_vars

(***************************************************************************)
(* SpecMinutiae: compare_fingerprint_templates applied to pairs of         *)
(* minutiae lists, then _remove_duplicate_minutiae applied to the first    *)
(* list and again to its own output                                        *)
(***************************************************************************)
InitMinutiae ==
    /\ MoreIdle
    /\ \/ points1 \in PoolLists /\ points2 \in PoolLists
       \/ points1 \in GridLists /\ points2 \in GridLists
       \/ points1 \in TieLists /\ points2 = <<>>
    /\ min_pc = "input"
    /\ fp_result = NoFpResult
    /\ unique1 = <<>>
    /\ unique2 = <<>>
    /\ FaceIdle
    /\ SysIdle
    /\ AuxIdle

CompareTemplates ==
    /\ min_pc = "input"
    /\ fp_result' = CompareFingerprintTemplates(points1, points2)
    /\ min_pc' = "compared"
    /\ UNCHANGED <<points1, points2, unique1, unique2, faceVars, sysVars, auxVars,
                   moreVars>>

RemoveDuplicates ==
    /\ min_pc = "compared"
    /\ unique1' = RemoveDuplicateMinutiae(points1)
    /\ min_pc' = "dedup1"
    /\ UNCHANGED <<points1, points2, fp_result, unique2, faceVars, sysVars, auxVars,
                   moreVars>>

RemoveDuplicatesAgain ==
    /\ min_pc = "dedup1"
    /\ unique2' = RemoveDuplicateMinutiae(unique1)
    /\ min_pc' = "dedup2"
    /\ UNCHANGED <<points1, points2, fp_result, unique1, faceVars, sysVars, auxVars,
                   moreVars>>

NextMinutiae == CompareTemplates \/ RemoveDuplicates \/ RemoveDuplicatesAgain

SpecMinutiae == InitMinutiae /\ [][NextMinutiae]_vars


(***************************************************************************)
(* Spec: the routes                                                        *)
(***************************************************************************)
StoredAtStart == {NoText, GarbageText}

Init ==
    /\ MoreIdle
    /\ student \in [face_encoding : StoredAtStart, fingerprint_template : StoredAtStart]
    /\ camera = "none"
    /\ scanner_initialized = FALSE
    /\ last = NoRequest
    /\ FaceIdle
    /\ MinIdle
    /\ AuxIdle

\* the outcomes tried at each sample of an enrollment: two good samples, a
\* failed extraction and a camera that does not open
EnrollSampleOutcomes ==
    {o \in FaceSampleOutcomes : o.dev.frame = "ok"}

FaceOutcomeLists == UNION {[1..n -> EnrollSampleOutcomes] : n \in 0..MaxSamples}
FingerOutcomeLists == UNION {[1..n -> FingerSampleOutcomes] : n \in 0..MaxSamples}

Response(route, http, reason) ==
    [NoRequest EXCEPT !.route = route, !.http = http, !.error = reason, !.pre = student]

EnrollmentResponse(route, res, n) ==
    [Response(route, IF res.success THEN 200 ELSE 400, res.error) EXCEPT
        !.num_samples = n, !.failed_sample = res.failed_sample,
        !.captures = res.captures, !.extractions = res.extractions,
        !.pauses = res.pauses]

\* "Student ID is required" (400) and "Student not found" (404), the early
\* returns every route starts with
RejectRequest ==
    /\ \E route \in {"enroll_face", "enroll_fingerprint", "verify_face",
                     "verify_fingerprint", "verify_student", "enroll_biometrics",
                     "basic_verify_face", "basic_verify_fingerprint",
                     "verify_student_biometrics"},
          http \in {400, 404} :
          last' = Response(route, http,
                           IF http = 400 THEN "Student ID is required"
                           ELSE "Student not found")
    /\ UNCHANGED <<student, camera, scanner_initialized, faceVars, minVars, auxVars,
                   moreVars>>

\* the quality_score of each template handed to _combine_templates or to
\* compare_fingerprint_templates, as extract_fingerprint_template set it
CombinedQualities(outcomes) ==
    [i \in 1..Len(outcomes) |->
        ExtractFingerprintTemplate(outcomes[i].points).quality_score]

\* biometric_enhanced.enroll_face
EnrollFaceRoute ==
    /\ \E outcomes \in FaceOutcomeLists :
          LET res == EnrollFace(camera, outcomes)
          IN  /\ camera' = res.camera
              /\ student' = IF res.success
                            THEN [student EXCEPT
                                     !.face_encoding = B64Encode(JsonDumps(res.value))]
                            ELSE student
              /\ last' = EnrollmentResponse("enroll_face", res, Len(outcomes))
    /\ UNCHANGED <<scanner_initialized, faceVars, minVars, auxVars, moreVars>>

\* biometric_enhanced.enroll_fingerprint
EnrollFingerprintRoute ==
    /\ \E outcomes \in FingerOutcomeLists :
          LET res == EnrollFingerprint(outcomes)
          IN  /\ scanner_initialized' = (scanner_initialized \/ Len(outcomes) > 0)
              /\ student' = IF res.success
                            THEN [student EXCEPT
                                     !.fingerprint_template = B64Encode(JsonDumps(res.value))]
                            ELSE student
              /\ last' = [EnrollmentResponse("enroll_fingerprint", res, Len(outcomes))
                             EXCEPT !.accepted_quality =
                                 IF res.success THEN CombinedQualities(outcomes)
                                 ELSE <<>>]
    /\ UNCHANGED <<camera, faceVars, minVars, auxVars, moreVars>>

\* biometric_enhanced.verify_face
VerifyFaceRoute ==
    /\ \E outcome \in FaceSampleOutcomes, mock_encoding \in FaceSamples :
          LET stored == IF IsStored(student.face_encoding) THEN student.face_encoding
                        ELSE B64Encode(JsonDumps(JsonList(mock_encoding)))
              res == ServiceVerifyFace(stored, camera, outcome)
          IN  /\ student' = [student EXCEPT !.face_encoding = stored]
              /\ camera' = CaptureFaceFromCamera(camera, outcome.dev).camera
              /\ last' = [Response("verify_face", IF res.success THEN 200 ELSE 400,
                                   res.error) EXCEPT !.face = res]
    /\ UNCHANGED <<scanner_initialized, faceVars, minVars, auxVars, moreVars>>

\* biometric_enhanced.verify_fingerprint
VerifyFingerprintRoute ==
    /\ \E outcome \in FingerSampleOutcomes, mock_template \in MockTemplates :
          LET stored == IF IsStored(student.fingerprint_template)
                        THEN student.fingerprint_template
                        ELSE B64Encode(JsonDumps(JsonDict(mock_template)))
              res == ServiceVerifyFingerprint(stored, outcome)
          IN  /\ student' = [student EXCEPT !.fingerprint_template = stored]
              /\ last' = [Response("verify_fingerprint",
                                   IF res.success THEN 200 ELSE 400, res.error)
                             EXCEPT !.fingerprint = res,
                                    !.accepted_quality =
                                        IF res.success
                                        THEN CombinedQualities(<<outcome>>)
                                        ELSE <<>>]
    /\ scanner_initialized' = TRUE
    /\ UNCHANGED <<camera, faceVars, minVars, auxVars, moreVars>>

\* biometric_enhanced.verify_student: the flags come with the request
VerifyStudent ==
    /\ \E face_verified \in BOOLEAN, fingerprint_verified \in BOOLEAN,
          active_session \in BOOLEAN :
          last' = IF ~active_session
                  THEN Response("verify_student", 400, "No active exam session")
                  ELSE [Response("verify_student", 200, "") EXCEPT
                           !.face_verified = face_verified,
                           !.fingerprint_verified = fingerprint_verified,
                           !.status = VerificationStatus(face_verified,
                                                         fingerprint_verified)]
    /\ UNCHANGED <<student, camera, scanner_initialized, faceVars, minVars, auxVars,
                   moreVars>>

\* biometric.enroll_biometrics
EnrollBiometrics ==
    /\ \E capture_face \in BOOLEAN, capture_fingerprint \in BOOLEAN,
          face_encoding \in FaceSamples \cup {NoEncoding},
          fingerprint_captured \in BOOLEAN :
          /\ student' =
                [face_encoding |->
                    IF capture_face /\ face_encoding # NoEncoding
                    THEN B64Encode(JsonDumps(JsonList(face_encoding)))
                    ELSE student.face_encoding,
                 fingerprint_template |->
                    IF capture_fingerprint /\ fingerprint_captured
                    THEN B64Encode(DummyFingerprintBytes)
                    ELSE student.fingerprint_template]
          /\ last' = Response("enroll_biometrics", 200, "")
    /\ UNCHANGED <<camera, scanner_initialized, faceVars, minVars, auxVars,
                   moreVars>>

Captured(result) == [result EXCEPT !.steps = <<"capture">> \o @]

\* biometric.verify_face
BasicVerifyFace ==
    /\ \E captured_encoding \in FaceSamples \cup {NoEncoding} :
          last' = IF captured_encoding = NoEncoding
                  THEN Response("basic_verify_face", 500,
                                "Failed to capture face from camera")
                  ELSE [Response("basic_verify_face", 200, "") EXCEPT
                           !.face = Captured(MockVerifyFace(student.face_encoding,
                                                            captured_encoding))]
    /\ UNCHANGED <<student, camera, scanner_initialized, faceVars, minVars, auxVars,
                   moreVars>>

\* biometric.verify_fingerprint
BasicVerifyFingerprint ==
    /\ \E fingerprint_captured \in BOOLEAN :
          last' = IF ~fingerprint_captured
                  THEN Response("basic_verify_fingerprint", 500,
                                "Failed to capture fingerprint from scanner")
                  ELSE [Response("basic_verify_fingerprint", 200, "") EXCEPT
                           !.fingerprint =
                               Captured(MockVerifyFingerprint(
                                   student.fingerprint_template, DummyFingerprintBytes))]
    /\ UNCHANGED <<student, camera, scanner_initialized, faceVars, minVars, auxVars,
                   moreVars>>

\* biometric.verify_student_biometrics
VerifyStudentBiometrics ==
    /\ \E captured_face \in FaceSamples \cup {NoEncoding},
          fingerprint_captured \in BOOLEAN :
          LET face_verification ==
                  IF IsStored(student.face_encoding)
                  THEN IF captured_face # NoEncoding
                       THEN Captured(MockVerifyFace(student.face_encoding, captured_face))
                       ELSE Captured(NoModality)
                  ELSE ModalityFailure("No face encoding stored for student", <<>>)
              fingerprint_verification ==
                  IF IsStored(student.fingerprint_template)
                  THEN IF fingerprint_captured
                       THEN Captured(MockVerifyFingerprint(
                                student.fingerprint_template, DummyFingerprintBytes))
                       ELSE Captured(NoModality)
                  ELSE ModalityFailure("No fingerprint template stored for student", <<>>)
              face_verified == ModalityVerified(face_verification)
              fingerprint_verified == ModalityVerified(fingerprint_verification)
          IN  last' = [Response("verify_student_biometrics", 200, "") EXCEPT
                          !.face = face_verification,
                          !.fingerprint = fingerprint_verification,
                          !.face_verified = face_verified,
                          !.fingerprint_verified = fingerprint_verified,
                          !.status = OverallStatus(face_verified, fingerprint_verified)]
    /\ UNCHANGED <<student, camera, scanner_initialized, faceVars, minVars, auxVars,
                   moreVars>>

Next ==
    \/ RejectRequest
    \/ EnrollFaceRoute
    \/ EnrollFingerprintRoute
    \/ VerifyFaceRoute
    \/ VerifyFingerprintRoute
    \/ VerifyStudent
    \/ EnrollBiometrics
    \/ BasicVerifyFace
    \/ BasicVerifyFingerprint
    \/ VerifyStudentBiometrics

Spec == Init /\ [][Next]_vars

(***************************************************************************)
(* SpecConcurrent: requests that run at the same time on the two shared    *)
(* service instances, each a thread going through                          *)
(* capture_face_from_camera or capture_fingerprint_image statement by      *)
(* statement.  The source takes no lock anywhere.                          *)
(***************************************************************************)
Devices == {"camera", "scanner"}

InitConcurrent ==
    /\ MoreIdle
    /\ ConcIdle
    /\ FaceIdle
    /\ MinIdle
    /\ SysIdle
    /\ FuseIdle
    /\ CodecIdle
    /\ DevIdle

\* a request enters capture_face_from_camera / capture_fingerprint_image
StartCapture(t) ==
    /\ thread_pc[t] = "idle"
    /\ \E d \in Devices : thread_dev' = [thread_dev EXCEPT ![t] = d]
    /\ thread_pc' = [thread_pc EXCEPT ![t] = "test"]
    /\ UNCHANGED <<handle_inits, faceVars, minVars, sysVars, fuseVars, codecVars, devVars,
                   moreVars>>

\* "if self.camera is None" / "if not self.scanner_initialized"
TestHandle(t) ==
    /\ thread_pc[t] = "test"
    /\ thread_pc' = [thread_pc EXCEPT ![t] =
          IF thread_dev[t] = "camera"
          THEN (IF camera = "none" THEN "init" ELSE "ready")
          ELSE (IF ~scanner_initialized THEN "init" ELSE "ready")]
    /\ UNCHANGED <<thread_dev, handle_inits, faceVars, minVars, sysVars, fuseVars,
                   codecVars, devVars, moreVars>>

\* initialize_camera() / initialize_scanner(); a camera that does not open
\* ends the call with 'Camera not available'
InitializeHandle(t) ==
    /\ thread_pc[t] = "init"
    /\ handle_inits' = [handle_inits EXCEPT ![thread_dev[t]] = @ + 1]
    /\ \/ /\ thread_dev[t] = "camera"
          /\ \E opens \in BOOLEAN :
                /\ camera' = InitializeCamera(opens).camera
                /\ thread_pc' = [thread_pc EXCEPT ![t] =
                                    IF opens THEN "ready" ELSE "idle"]
                /\ thread_dev' = [thread_dev EXCEPT ![t] =
                                    IF opens THEN "camera" ELSE "none"]
          /\ UNCHANGED scanner_initialized
       \/ /\ thread_dev[t] = "scanner"
          /\ scanner_initialized' = TRUE
          /\ thread_pc' = [thread_pc EXCEPT ![t] = "ready"]
          /\ UNCHANGED <<camera, thread_dev, moreVars>>
    /\ UNCHANGED <<student, last, faceVars, minVars, fuseVars, codecVars, devVars,
                   moreVars>>

\* the call of self.camera.read() / the scan that takes time.sleep(1)
BeginRead(t) ==
    /\ thread_pc[t] = "ready"
    /\ thread_pc' = [thread_pc EXCEPT ![t] = "reading"]
    /\ UNCHANGED <<thread_dev, handle_inits, faceVars, minVars, sysVars, fuseVars,
                   codecVars, devVars, moreVars>>

\* the read returns and the call builds its result
EndRead(t) ==
    /\ thread_pc[t] = "reading"
    /\ thread_pc' = [thread_pc EXCEPT ![t] = "idle"]
    /\ thread_dev' = [thread_dev EXCEPT ![t] = "none"]
    /\ UNCHANGED <<handle_inits, faceVars, minVars, sysVars, fuseVars, codecVars, devVars,
                   moreVars>>

NextConcurrent ==
    \E t \in Threads :
        \/ StartCapture(t)
        \/ TestHandle(t)
        \/ InitializeHandle(t)
        \/ BeginRead(t)
        \/ EndRead(t)

SpecConcurrent == InitConcurrent /\ [][NextConcurrent]_vars

(***************************************************************************)
(* SpecDevice: capture and release calls made one after the other on one   *)
(* FaceRecognitionService and one FingerprintService, with a camera that   *)
(* either can or cannot be opened for the whole run.  calls is the log of  *)
(* the calls and of what each returned.                                    *)
(***************************************************************************)
\* a slip that releases the VideoCapture and keeps the attribute
ReleaseCameraKeepsHandle(cam) == IF cam = "none" THEN "none" ELSE "dead"

\* release_camera: self.camera.release(); self.camera = None
ReleaseCamera(cam) == "none"

\* release_scanner: self.scanner_initialized = False
ReleaseScanner(initialized) == FALSE

\* one entry of the log.  initialized: the call ran initialize_camera /
\* initialize_scanner; read_on: the handle the frame or scan was read on,
\* "none" when the call returned before reading
Call(op, dev, res, initialized, read_on, cam, scanner) ==
    [op |-> op, dev |-> dev, success |-> res.success, error |-> res.error,
     initialized |-> initialized, read_on |-> read_on, opens |-> device_opens,
     camera |-> cam, scanner_initialized |-> scanner]

InitDevice ==
    /\ MoreIdle
    /\ device_opens \in BOOLEAN
    /\ calls = <<>>
    /\ SysIdle
    /\ FaceIdle
    /\ MinIdle
    /\ FuseIdle
    /\ CodecIdle
    /\ ConcIdle

\* face_recognition_service.capture_face_from_camera()
CaptureFace ==
    /\ Len(calls) < MaxCalls
    /\ \E frame \in {"ok", "noframe", "noface"} :
          LET res == CaptureFaceFromCamera(camera,
                         [opens |-> device_opens, frame |-> frame])
          IN  /\ camera' = res.camera
              /\ calls' = Append(calls,
                    Call("capture", "camera", res, camera = "none",
                         IF res.error = "Camera not available" THEN "none"
                         ELSE res.camera,
                         res.camera, scanner_initialized))
    /\ UNCHANGED <<device_opens, student, scanner_initialized, last, faceVars,
                   minVars, fuseVars, codecVars, concVars, moreVars>>

\* fingerprint_service.capture_fingerprint_image()
CaptureFingerprint ==
    /\ Len(calls) < MaxCalls
    /\ \E quality \in {5, 8} :
          calls' = Append(calls,
              Call("capture", "scanner", CaptureFingerprintImage(quality),
                   ~scanner_initialized, "scanner", camera, TRUE))
    /\ scanner_initialized' = TRUE
    /\ UNCHANGED <<device_opens, student, camera, last, faceVars, minVars,
                   fuseVars, codecVars, concVars, moreVars>>

\* face_recognition_service.release_camera()
ReleaseCameraCall ==
    /\ Len(calls) < MaxCalls
    /\ camera' = ReleaseCamera(camera)
    /\ calls' = Append(calls,
          Call("release", "camera", [success |-> TRUE, error |-> ""], FALSE,
               "none", ReleaseCamera(camera), scanner_initialized))
    /\ UNCHANGED <<device_opens, student, scanner_initialized, last, faceVars,
                   minVars, fuseVars, codecVars, concVars, moreVars>>

\* fingerprint_service.release_scanner()
ReleaseScannerCall ==
    /\ Len(calls) < MaxCalls
    /\ scanner_initialized' = ReleaseScanner(scanner_initialized)
    /\ calls' = Append(calls,
          Call("release", "scanner", [success |-> TRUE, error |-> ""], FALSE,
               "none", camera, ReleaseScanner(scanner_initialized)))
    /\ UNCHANGED <<device_opens, student, camera, last, faceVars, minVars,
                   fuseVars, codecVars, concVars, moreVars>>

NextDevice ==
    \/ CaptureFace
    \/ CaptureFingerprint
    \/ ReleaseCameraCall
    \/ ReleaseScannerCall

SpecDevice == InitDevice /\ [][NextDevice]_vars

(***************************************************************************)
(* SpecFusion: the fusion step of the two enrollments, applied to every    *)
(* list of one to MaxSamples extracted samples                             *)
(***************************************************************************)
\* the minutiae lists a sample can hold: one or two points of the pool
FusionLists == {pts \in PoolLists : Len(pts) \in {1, 2}}

FusionTemplates == {ExtractFingerprintTemplate(pts) : pts \in FusionLists}

InitFusion ==
    /\ MoreIdle
    /\ \E n \in 1..MaxSamples :
          /\ fuse_templates \in [1..n -> FusionTemplates]
          /\ fuse_encodings \in [1..n -> FaceSamples]
    /\ fuse_pc = "input"
    /\ combined = EmptyDict
    /\ mean_encoding = <<>>
    /\ FaceIdle
    /\ MinIdle
    /\ SysIdle
    /\ CodecIdle
    /\ DevIdle
    /\ ConcIdle

\* combined_template = self._combine_templates(templates)
FuseTemplates ==
    /\ fuse_pc = "input"
    /\ combined' = CombineTemplates(fuse_templates)
    /\ fuse_pc' = "combined"
    /\ UNCHANGED <<fuse_templates, fuse_encodings, mean_encoding, faceVars, minVars,
                   sysVars, codecVars, devVars, concVars, moreVars>>

\* avg_encoding = np.mean(encodings, axis=0).tolist()
AverageEncodings ==
    /\ fuse_pc = "combined"
    /\ mean_encoding' = MeanEncoding(fuse_encodings)
    /\ fuse_pc' = "fused"
    /\ UNCHANGED <<fuse_templates, fuse_encodings, combined, faceVars, minVars,
                   sysVars, codecVars, devVars, concVars, moreVars>>

NextFusion == FuseTemplates \/ AverageEncodings

SpecFusion == InitFusion /\ [][NextFusion]_vars

(***************************************************************************)
(* SpecCodec: a face encoding is encoded for storage, the stored text may  *)
(* be damaged, and is then decoded and verified against                    *)
(***************************************************************************)
\* lists of -1.2, -0.5, 0.0, 0.7 and 10.5
CodecEncodings ==
    UNION {[1..n -> {0 - 12, 0 - 5, 0, 7, 105}] : n \in 0..MaxDim}

InitCodec ==
    /\ MoreIdle
    /\ codec_input \in CodecEncodings
    /\ codec_text = <<>>
    /\ codec_pc = "input"
    /\ codec_decoded = NoDecoded
    /\ codec_result = NoModality
    /\ FaceIdle
    /\ MinIdle
    /\ SysIdle
    /\ FuseIdle
    /\ DevIdle
    /\ ConcIdle

\* student.face_encoding = BiometricUtils.encode_face_data(face_encoding)
EncodeFace ==
    /\ codec_pc = "input"
    /\ codec_text' = EncodeFaceData(codec_input)
    /\ codec_pc' = "encoded"
    /\ UNCHANGED <<codec_input, codec_decoded, codec_result, faceVars, minVars,
                   sysVars, fuseVars, devVars, concVars, moreVars>>

\* the stored text is damaged outside the program: a character that is
\* not of the base64 alphabet gets in, the last character is lost, the
\* JSON inside is cut short, or a byte that is not UTF-8 is put in front
TamperText ==
    /\ codec_pc = "encoded"
    /\ \/ \E k \in 1..(Len(codec_text) + 1) :
             codec_text' = SubSeq(codec_text, 1, k - 1) \o <<Stray>>
                               \o SubSeq(codec_text, k, Len(codec_text))
       \/ codec_text' = SubSeq(codec_text, 1, Len(codec_text) - 1)
       \/ codec_text' = B64EncodeBytes(
              SubSeq(JsonDumpsList(codec_input), 1,
                     Len(JsonDumpsList(codec_input)) - 1))
       \/ codec_text' = B64EncodeBytes(<<255>> \o JsonDumpsList(codec_input))
    /\ codec_pc' = "tampered"
    /\ UNCHANGED <<codec_input, codec_decoded, codec_result, faceVars, minVars,
                   sysVars, fuseVars, devVars, concVars, moreVars>>

\* BiometricUtils.decode_face_data(student.face_encoding)
DecodeFace ==
    /\ codec_pc \in {"encoded", "tampered"}
    /\ codec_decoded' = DecodeFaceData(codec_text)
    /\ codec_pc' = "decoded"
    /\ UNCHANGED <<codec_input, codec_text, codec_result, faceVars, minVars,
                   sysVars, fuseVars, devVars, concVars, moreVars>>

\* face_recognition_service.verify_face(student.face_encoding), the camera
\* delivering the enrolled encoding or its opposite
VerifyStoredText ==
    /\ codec_pc = "decoded"
    /\ \E sign \in {1, 0 - 1} :
          codec_result' = VerifyFaceAgainstText(
              codec_text, [i \in DOMAIN codec_input |-> sign * codec_input[i]])
    /\ codec_pc' = "verified"
    /\ UNCHANGED <<codec_input, codec_text, codec_decoded, faceVars, minVars,
                   sysVars, fuseVars, devVars, concVars, moreVars>>

NextCodec == EncodeFace \/ TamperText \/ DecodeFace \/ VerifyStoredText

SpecCodec == InitCodec /\ [][NextCodec]_vars

(***************************************************************************)
(* SpecExtract: extract_face_encoding on a face mesh result with any       *)
(* number of landmarks                                                     *)
(***************************************************************************)
MaxLandmarks == 460  \* most landmarks a face mesh result holds in the model

TargetLength == 128

\* key_landmarks: face outline, eyes, nose, mouth
KeyLandmarks ==
    <<10, 338, 297, 332, 284, 251, 389, 356, 454, 323, 361, 288,
      33, 7, 163, 144, 145, 153, 154, 155, 133, 173, 157, 158, 159, 160, 161, 246,
      1, 2, 5, 4, 6, 19, 94, 168, 8, 9, 10, 151,
      12, 15, 16, 17, 18, 200, 199, 175, 0, 13, 14, 269, 270, 267, 271, 272>>

\* [landmark.x, landmark.y, landmark.z] of landmark idx: three values that
\* are not 0.0 and differ from those of every other landmark
LandmarkCoordinates(idx) == <<3 * idx + 1, 3 * idx + 2, 3 * idx + 3>>

\* for idx in key_landmarks: if idx < len(landmarks.landmark): extend
RECURSIVE CollectLandmarks(_, _)
CollectLandmarks(count, k) ==
    IF k > Len(KeyLandmarks) THEN <<>>
    ELSE (IF KeyLandmarks[k] < count
          THEN LandmarkCoordinates(KeyLandmarks[k]) ELSE <<>>)
             \o CollectLandmarks(count, k + 1)

ExtractFaceEncodingUnpadded(found, count) ==
    LET encoding == CollectLandmarks(count, 1)
    IN  IF ~found THEN NoExtracted
        ELSE [ok |-> TRUE,
              encoding |-> IF Len(encoding) > TargetLength
                           THEN SubSeq(encoding, 1, TargetLength)
                           ELSE encoding]

ExtractFaceEncoding(found, count) ==
    LET encoding == CollectLandmarks(count, 1)
    IN  IF ~found THEN NoExtracted
        ELSE [ok |-> TRUE,
              encoding |->
                  IF Len(encoding) > TargetLength
                  THEN SubSeq(encoding, 1, TargetLength)
                  ELSE encoding
                           \o [i \in 1..(TargetLength - Len(encoding)) |-> 0]]

InitExtract ==
    /\ landmark_count \in 0..MaxLandmarks
    /\ face_found \in BOOLEAN
    /\ extract_pc = "input"
    /\ extracted = NoExtracted
    /\ FaceIdle
    /\ MinIdle
    /\ SysIdle
    /\ AuxIdle
    /\ QualityIdle
    /\ EnrollIdle
    /\ ScorerIdle

\* face_recognition_service.extract_face_encoding(image_data)
ExtractEncoding ==
    /\ extract_pc = "input"
    /\ extracted' = ExtractFaceEncoding(face_found, landmark_count)
    /\ extract_pc' = "extracted"
    /\ UNCHANGED <<landmark_count, face_found, faceVars, minVars, sysVars, auxVars,
                   qualityVars, enrollVars, scorerVars>>

NextExtract == ExtractEncoding

SpecExtract == InitExtract /\ [][NextExtract]_vars

(***************************************************************************)
(* SpecQuality: the quality assessors called again and again on one        *)
(* captured sample                                                         *)
(***************************************************************************)
MaxAssessments == 2  \* most assessments of one sample

InitQuality ==
    /\ assessed_image \in {1, 2}
    /\ assessed_points \in FingerSamples \cup {NoPoints}
    /\ image_scores = <<>>
    /\ template_scores = <<>>
    /\ student = [face_encoding |-> NoText, fingerprint_template |-> NoText]
    /\ camera = "none"
    /\ scanner_initialized \in BOOLEAN
    /\ last = NoRequest
    /\ FaceIdle
    /\ MinIdle
    /\ AuxIdle
    /\ ExtractIdle
    /\ EnrollIdle
    /\ ScorerIdle

\* fingerprint_service._assess_fingerprint_quality(image_data): the image
\* is not looked at, the score is np.random.uniform(0.7, 1.0), in tenths
AssessFingerprintQuality ==
    /\ Len(image_scores) < MaxAssessments
    /\ \E score \in 7..10 :
          image_scores' = Append(image_scores, score)
    /\ UNCHANGED <<assessed_image, assessed_points, template_scores, faceVars,
                   minVars, sysVars, auxVars, extractVars, enrollVars, scorerVars>>

\* fingerprint_service._assess_template_quality(minutiae_points)
AssessTemplate ==
    /\ Len(template_scores) < MaxAssessments
    /\ template_scores' =
           Append(template_scores, AssessTemplateQuality(assessed_points))
    /\ UNCHANGED <<assessed_image, assessed_points, image_scores, faceVars,
                   minVars, sysVars, auxVars, extractVars, enrollVars, scorerVars>>

NextQuality == AssessFingerprintQuality \/ AssessTemplate

SpecQuality == InitQuality /\ [][NextQuality]_vars

(***************************************************************************)
(* SpecEnroll: enroll_face / enroll_fingerprint step by step, with the     *)
(* captures, extractions and pauses written down as they happen            *)
(***************************************************************************)
MaxEnrollSamples == 3  \* largest num_samples of a traced enrollment

Event(op, sample) == [op |-> op, sample |-> sample]

InitEnroll ==
    /\ enroll_service \in {"face", "fingerprint"}
    /\ enroll_n \in (0 - 1)..MaxEnrollSamples
    /\ enroll_outcomes \in [1..enroll_n -> {"ok", "nocapture", "noextract"}]
    /\ enroll_i = 0
    /\ enroll_pc = "call"
    /\ enroll_trace = <<>>
    /\ FaceIdle
    /\ MinIdle
    /\ SysIdle
    /\ AuxIdle
    /\ ExtractIdle
    /\ QualityIdle
    /\ ScorerIdle

\* for i in range(num_samples): the first test of the loop
EnrollCall ==
    /\ enroll_pc = "call"
    /\ enroll_i' = 0
    /\ enroll_pc' = IF 0 < enroll_n THEN "capture" ELSE "fuse"
    /\ UNCHANGED <<enroll_service, enroll_n, enroll_outcomes, enroll_trace, faceVars,
                   minVars, sysVars, auxVars, extractVars, qualityVars, scorerVars>>

\* capture_face_from_camera() / capture_fingerprint_image() of sample i+1,
\* and the return when it did not succeed
EnrollCaptureSample ==
    /\ enroll_pc = "capture"
    /\ enroll_trace' = Append(enroll_trace, Event("capture", enroll_i + 1))
    /\ enroll_pc' = IF enroll_outcomes[enroll_i + 1] = "nocapture"
                    THEN "failed" ELSE "extract"
    /\ UNCHANGED <<enroll_service, enroll_n, enroll_outcomes, enroll_i, faceVars,
                   minVars, sysVars, auxVars, extractVars, qualityVars, scorerVars>>

\* extract_face_encoding / extract_fingerprint_template of sample i+1, and
\* the return when it gave None
EnrollExtractSample ==
    /\ enroll_pc = "extract"
    /\ enroll_trace' = Append(enroll_trace, Event("extract", enroll_i + 1))
    /\ enroll_pc' = IF enroll_outcomes[enroll_i + 1] = "noextract"
                    THEN "failed" ELSE "wait"
    /\ UNCHANGED <<enroll_service, enroll_n, enroll_outcomes, enroll_i, faceVars,
                   minVars, sysVars, auxVars, extractVars, qualityVars, scorerVars>>

\* append; if i < num_samples - 1: time.sleep(...); next turn of the loop
EnrollWait ==
    /\ enroll_pc = "wait"
    /\ enroll_trace' = IF enroll_i < enroll_n - 1
                       THEN Append(enroll_trace, Event("pause", enroll_i + 1))
                       ELSE enroll_trace
    /\ enroll_i' = enroll_i + 1
    /\ enroll_pc' = IF enroll_i + 1 < enroll_n THEN "capture" ELSE "fuse"
    /\ UNCHANGED <<enroll_service, enroll_n, enroll_outcomes, faceVars,
                   minVars, sysVars, auxVars, extractVars, qualityVars, scorerVars>>

\* np.mean(encodings, axis=0) / _combine_templates(templates) and the
\* return of success
EnrollFuse ==
    /\ enroll_pc = "fuse"
    /\ enroll_pc' = "success"
    /\ UNCHANGED <<enroll_service, enroll_n, enroll_outcomes, enroll_i, enroll_trace,
                   faceVars, minVars, sysVars, auxVars, extractVars, qualityVars, scorerVars>>

NextEnroll ==
    \/ EnrollCall
    \/ EnrollCaptureSample
    \/ EnrollExtractSample
    \/ EnrollWait
    \/ EnrollFuse

SpecEnroll == InitEnroll /\ [][NextEnroll]_vars

(***************************************************************************)
(* SpecScorers: the two scorers of the services on present, empty and      *)
(* missing arguments                                                      *)
(***************************************************************************)
\* compare_fingerprint_templates skipping its two tests of the arguments
CompareTemplateObjectsUntested(tpl1, tpl2) ==
    LET similarity == CalculateMinutiaeSimilarity(tpl1.dict.minutiae_points,
                                                  tpl2.dict.minutiae_points)
    IN  [success |-> TRUE, error |-> "", similarity |-> similarity,
         match |-> similarity.num * ThresholdDen > FpThresholdNum * similarity.den,
         matched_points |-> 0]

\* compare_fingerprint_templates: "if not template1 or not template2", then
\* the comparison of the two minutiae_points lists
CompareTemplateObjects(tpl1, tpl2) ==
    IF tpl1.is_none \/ tpl1.dict.is_empty \/ tpl2.is_none \/ tpl2.dict.is_empty
    THEN FpCompareFailure("Invalid templates provided")
    ELSE CompareFingerprintTemplates(tpl1.dict.minutiae_points,
                                     tpl2.dict.minutiae_points)

\* the encodings are None or [] (both take the branch of "not encoding"),
\* the two axes and the zero vector; the templates are None, {} and
\* templates of no point or one point
InitScorers ==
    LET encodings == {NoEncoding, <<1, 0>>, <<0, 1>>, <<0, 0>>}
        templates ==
            {NoneTemplate, [is_none |-> FALSE, dict |-> EmptyDict]}
            \cup {[is_none |-> FALSE, dict |-> ExtractFingerprintTemplate(pts)] :
                     pts \in {NoPoints} \cup {<<pt>> : pt \in PointPool}}
    IN
    /\ encoding1 \in encodings
    /\ encoding2 \in encodings
    /\ face_pc = "input"
    /\ face_result = <<NoFaceResult, NoFaceResult>>
    /\ template1 \in templates
    /\ template2 \in templates
    /\ MinIdle
    /\ SysIdle
    /\ AuxIdle
    /\ ExtractIdle
    /\ QualityIdle
    /\ EnrollIdle

\* fingerprint_service.compare_fingerprint_templates(template1, template2)
CompareTemplateArguments ==
    /\ min_pc = "idle"
    /\ fp_result' = CompareTemplateObjects(template1, template2)
    /\ min_pc' = "compared"
    /\ UNCHANGED <<points1, points2, unique1, unique2, faceVars, sysVars, auxVars,
                   moreVars>>

NextScorers == CompareFaces \/ CompareTemplateArguments

SpecScorers == InitScorers /\ [][NextScorers]_vars

(***************************************************************************)
(* Properties of the scorers and of deduplication                          *)
(***************************************************************************)
ToSet(list) == {list[i] : i \in DOMAIN list}

\* C2: the fingerprint similarity computed by _calculate_minutiae_similarity
\* and reported by compare_fingerprint_templates lies in [0,1] for every
\* pair of minutiae lists, and is 0 when either list is empty.
C2_SimilarityInUnitInterval ==
    min_pc # "input" =>
        /\ 0 <= fp_result.similarity.num
        /\ fp_result.similarity.num <= fp_result.similarity.den
        /\ (Len(points1) = 0 \/ Len(points2) = 0) => fp_result.similarity.num = 0

\* C3: every P1 point is matched at most once and only to a P2 point that
\* no earlier P1 point was matched to, so no P2 point is the match of two
\* P1 points and the match count never exceeds min(|P1|,|P2|).
C3_MatchesAreOneToOne ==
    (min_pc # "input" /\ fp_result.success) =>
        /\ \A i1, i2 \in DOMAIN points1 :
              (i1 < i2 /\ FirstMatch(points1[i2], points2) # 0)
                  => FirstMatch(points1[i1], points2) # FirstMatch(points1[i2], points2)
        /\ fp_result.similarity.num <= Min2(Len(points1), Len(points2))

\* the three conditions of C4, stated without the code's min(d, 360 - d)
WithinTolerances(pa, pb) ==
    /\ (pa.x - pb.x) * (pa.x - pb.x) + (pa.y - pb.y) * (pa.y - pb.y) <= 100
    /\ \E turn \in {-1, 0, 1} :
          /\ pa.angle - pb.angle + 360 * turn <= 30
          /\ pb.angle - pa.angle - 360 * turn <= 30
    /\ pa.type = pb.type

\* C4: a P1 point counts as matched exactly when some P2 point is within
\* 10 units of it, within 30 degrees of circular angular distance and of
\* the same type; the point at which the search stops is such a point.
C4_MatchExactlyWithinTolerances ==
    (min_pc # "input" /\ fp_result.success) =>
        /\ fp_result.similarity.num =
              Cardinality({i \in DOMAIN points1 :
                              \E j \in DOMAIN points2 :
                                  WithinTolerances(points1[i], points2[j])})
        /\ \A i \in DOMAIN points1 :
              FirstMatch(points1[i], points2) # 0
                  => WithinTolerances(points1[i], points2[FirstMatch(points1[i], points2)])

\* C4 witness: angles 355 and 5 on two single points 10 units apart matched
C4_WrapAroundMatched ==
    /\ min_pc = "compared"
    /\ Len(points1) = 1 /\ Len(points2) = 1
    /\ points1[1].angle = 355 /\ points2[1].angle = 5
    /\ points1[1].x = 0 /\ points1[1].y = 0
    /\ points2[1].x = 6 /\ points2[1].y = 8
    /\ fp_result.similarity.num = 1

\* C5: a non-empty encoding of zero norm on either side gives similarity
\* 0.0 and match = false.
C5_ZeroNormGivesZero ==
    (/\ face_pc # "input"
     /\ Len(encoding1) > 0 /\ Len(encoding2) > 0
     /\ NormSq(encoding1) = 0 \/ NormSq(encoding2) = 0)
        => /\ RealEq(face_result[1].similarity, 0, 1)
           /\ ~face_result[1].match

\* C6: compare_face_encodings(A,B) and compare_face_encodings(B,A) return
\* the same success, similarity and match for encodings of equal length.
C6_FaceSimilaritySymmetric ==
    (face_pc = "swapped" /\ Len(encoding1) = Len(encoding2)) =>
        /\ face_result[1].success = face_result[2].success
        /\ face_result[1].similarity = face_result[2].similarity
        /\ face_result[1].match = face_result[2].match

\* C6 witness: two different encodings of different norm compared both ways
C6_ComparedBothWays ==
    /\ face_pc = "swapped"
    /\ face_result[1].success /\ face_result[2].success
    /\ NormSq(encoding1) # NormSq(encoding2)
    /\ NormSq(encoding1) # 0 /\ NormSq(encoding2) # 0
    /\ Dot(encoding1, encoding2) # 0

IsScaledCopy == \E k \in 1..MaxScale : encoding2 = Scale(k, encoding1)

\* C7 as stated: for every non-empty encoding A and every k > 0,
\* compare_face_encodings(A, k*A) returns similarity 1.0 and match = true.
C7_ScaledCopyIsMaximal ==
    (face_pc # "input" /\ Len(encoding1) > 0 /\ IsScaledCopy) =>
        /\ RealEq(face_result[1].similarity, 1, 1)
        /\ face_result[1].match

\* C7 amended: for every encoding A of non-zero norm and every k > 0,
\* compare_face_encodings(A, k*A) returns similarity 1.0 and match = true.
C7_ScaledNonZeroCopyIsMaximal ==
    (face_pc # "input" /\ NormSq(encoding1) # 0 /\ IsScaledCopy) =>
        /\ face_result[1].success
        /\ RealEq(face_result[1].similarity, 1, 1)
        /\ face_result[1].match

\* C7 witness: an encoding compared with twice itself
C7_DoubledCopyCompared ==
    /\ face_pc = "compared"
    /\ NormSq(encoding1) # 0
    /\ encoding2 = Scale(2, encoding1)
    /\ RealEq(face_result[1].similarity, 1, 1)

\* C8: deduplicating the output of a deduplication keeps exactly the same
\* set of points.
C8_DedupIdempotent ==
    min_pc = "dedup2" => ToSet(unique2) = ToSet(unique1)

(***************************************************************************)
(* Properties of the request flows                                         *)
(***************************************************************************)
StatusTable(face_flag, fingerprint_flag) ==
    IF face_flag /\ fingerprint_flag THEN "approved"
    ELSE IF face_flag = fingerprint_flag THEN "rejected"
    ELSE "partial"

\* C1: the overall status returned by verify_student and by
\* verify_student_biometrics is the truth table of the two verified flags
\* (a flag holds only for a result that exists with success and match):
\* both give approved, exactly one gives partial, none gives rejected,
\* whichever modality the one is; no other status is returned.
C1_StatusIsTruthTable ==
    /\ (last.route = "verify_student" /\ last.http = 200) =>
          last.status = StatusTable(last.face_verified, last.fingerprint_verified)
    /\ (last.route = "verify_student_biometrics" /\ last.http = 200) =>
          last.status =
              StatusTable(last.face.present /\ last.face.vr.success
                              /\ last.face.vr.match,
                          last.fingerprint.present /\ last.fingerprint.vr.success
                              /\ last.fingerprint.vr.match)
    /\ (last.route \in {"verify_student", "verify_student_biometrics"}
           /\ last.http = 200) =>
          last.status \in {"approved", "partial", "rejected"}

\* C1 witness: verify_student_biometrics with only the fingerprint verified
C1_FingerprintOnlyIsPartial ==
    /\ last.route = "verify_student_biometrics"
    /\ ~last.face_verified
    /\ last.fingerprint.present /\ last.fingerprint.vr.match
    /\ last.status = "partial"

\* C9: when the capture or the extraction of any sample of an enrollment
\* fails, the enrollment route answers success = false and the Student row
\* is what it was before the request.
C9_FailedEnrollmentPersistsNothing ==
    (last.route \in {"enroll_face", "enroll_fingerprint"} /\ last.failed_sample # 0) =>
        /\ last.http = 400
        /\ student = last.pre

\* C9 witness: the second sample of a fingerprint enrollment failed while a
\* template enrolled earlier was stored, and that template is still stored
C9_SecondSampleFailed ==
    /\ last.route = "enroll_fingerprint"
    /\ last.failed_sample = 2
    /\ DecodeStored(last.pre.fingerprint_template).ok
    /\ student.fingerprint_template = last.pre.fingerprint_template

ModalityFailed(result) == ~(result.present /\ result.success /\ result.vr.success)

FaceVerificationRoutes ==
    {"verify_face", "basic_verify_face", "verify_student_biometrics"}

FingerprintVerificationRoutes ==
    {"verify_fingerprint", "basic_verify_fingerprint", "verify_student_biometrics"}

\* the request got past the student lookup
Accepted == last.error \notin {"Student ID is required", "Student not found"}

NotEnrolledReasons ==
    {"No face encoding stored for student",
     "No fingerprint template stored for student"}

NotEnrolledWithoutCapture(result) ==
    /\ result.present
    /\ ~result.success
    /\ result.error \in NotEnrolledReasons
    /\ \A i \in DOMAIN result.steps : result.steps[i] # "capture"

\* C11: when nothing is stored for a modality, every verification entry
\* point of that modality answers with a not-enrolled failure and runs no
\* capture for that modality: the check comes before the capture step.
C11_NotEnrolledBeforeCapture ==
    /\ (last.route \in FaceVerificationRoutes /\ Accepted
           /\ ~IsStored(last.pre.face_encoding))
          => NotEnrolledWithoutCapture(last.face)
    /\ (last.route \in FingerprintVerificationRoutes /\ Accepted
           /\ ~IsStored(last.pre.fingerprint_template))
          => NotEnrolledWithoutCapture(last.fingerprint)

\* C12: a verification request, whatever its outcome, leaves the stored
\* face_encoding and fingerprint_template exactly as they were before it,
\* also when they were absent.
C12_VerificationIsReadOnly ==
    (last.route \in FaceVerificationRoutes \cup FingerprintVerificationRoutes)
        => student = last.pre

\* the 0.6 of "if quality_score < 0.6", in tenths
QualityGateNum == 6

Reading(d) == {t \in Threads : thread_pc[t] = "reading" /\ thread_dev[t] = d}

\* C14: when requests run at the same time on a shared service, at no time
\* are two captures in flight on the same camera or scanner handle, and at
\* most one request initializes the handle.
C14_CapturesMutuallyExclusive ==
    \A d \in Devices :
        /\ Cardinality(Reading(d)) <= 1
        /\ handle_inits[d] <= 1

\* C15: while the camera cannot be opened, every call of
\* capture_face_from_camera on the service instance, the first and each
\* later one, returns the failure 'Camera not available'.
C15_UnavailableCameraAlwaysReported ==
    \A i \in DOMAIN calls :
        (calls[i].op = "capture" /\ calls[i].dev = "camera" /\ ~calls[i].opens)
            => (~calls[i].success /\ calls[i].error = "Camera not available")

\* the call on the same device before call i, 0 when there is none
PreviousOn(i) ==
    LET earlier == {j \in 1..(i - 1) : calls[j].dev = calls[i].dev}
    IN  IF earlier = {} THEN 0 ELSE CHOOSE j \in earlier : \A k \in earlier : k <= j

\* the handle of the call's device, after the call
Acquired(call) ==
    IF call.dev = "camera" THEN call.camera = "open" ELSE call.scanner_initialized

HandleAbsent(call) ==
    IF call.dev = "camera" THEN call.camera = "none" ELSE ~call.scanner_initialized

C17_SingleSampleFusionIsIdentity ==
    /\ (fuse_pc # "input" /\ Len(fuse_templates) = 1) =>
          /\ combined = fuse_templates[1]
          /\ combined.minutiae_points = fuse_templates[1].minutiae_points
          /\ combined.quality_score = AssessTemplateQuality(combined.minutiae_points)
          /\ combined.combined_from = 0
    /\ (fuse_pc = "fused" /\ Len(fuse_encodings) = 1) =>
          mean_encoding = fuse_encodings[1]

\* C17 witness: a single template holding two points 4 units apart, which
\* deduplication would merge, fused together with a single encoding
C17_SingleTemplateWithDuplicates ==
    /\ fuse_pc = "fused"
    /\ Len(fuse_templates) = 1
    /\ Len(fuse_encodings) = 1
    /\ Len(combined.minutiae_points) = 2
    /\ Len(RemoveDuplicateMinutiae(fuse_templates[1].minutiae_points)) = 1
    /\ mean_encoding # <<>>

(***************************************************************************)
(* Properties of one deduplication step                                    *)
(***************************************************************************)
\* the retained points before and after the i-th point of points1 is taken
RetainedBefore(i) == RemoveDuplicateMinutiae(SubSeq(points1, 1, i - 1))
RetainedAfter(i) == RemoveDuplicateMinutiae(SubSeq(points1, 1, i))

Occurrences(list, x) == Cardinality({j \in DOMAIN list : list[j] = x})

CloseBy(pa, pb) ==
    (pa.x - pb.x) * (pa.x - pb.x) + (pa.y - pb.y) * (pa.y - pb.y) <= 25

\* of an incoming point and a retained one, the one that is to stay
Winner(incoming, retained) ==
    IF incoming.quality > retained.quality THEN incoming ELSE retained

\* C18 as stated: whenever an incoming point lies within 5 units of an
\* already retained point, exactly one of the two is retained after the
\* step, the one of higher quality (the retained one on a tie); every
\* output point is an input point.
C18_DuplicateKeepsHigherQuality ==
    min_pc \in {"dedup1", "dedup2"} =>
        /\ \A i \in DOMAIN points1 :
              \A u \in ToSet(RetainedBefore(i)) :
                  (CloseBy(points1[i], u) /\ u # points1[i]) =>
                      /\ Winner(points1[i], u) \in ToSet(RetainedAfter(i))
                      /\ \E p \in {points1[i], u} : p \notin ToSet(RetainedAfter(i))
        /\ ToSet(unique1) \subseteq ToSet(points1)

\* position of the first retained point within 5 units of the i-th point
FirstCloseBy(i) ==
    LET close == {k \in DOMAIN RetainedBefore(i) :
                     CloseBy(points1[i], RetainedBefore(i)[k])}
    IN  IF close = {} THEN 0 ELSE CHOOSE k \in close : \A j \in close : k <= j

\* What a step does guarantee: of the incoming point and the first retained
\* point within 5 units of it, in the order of retention, one copy of the
\* one of lower quality (of the incoming one on a tie) is dropped and the
\* other stays; no other retained point changes.
FirstDuplicateKeepsHigherQuality ==
    min_pc \in {"dedup1", "dedup2"} =>
        /\ \A i \in DOMAIN points1 :
              LET before == RetainedBefore(i)
                  after == RetainedAfter(i)
                  point == points1[i]
              IN  IF FirstCloseBy(i) = 0
                  THEN after = Append(before, point)
                  ELSE LET u == before[FirstCloseBy(i)]
                       IN  /\ Len(after) = Len(before)
                           /\ Occurrences(after, Winner(point, u)) >= 1
                           /\ (point.quality > u.quality /\ u # point) =>
                                 /\ Occurrences(after, u) = Occurrences(before, u) - 1
                                 /\ Occurrences(after, point)
                                       = Occurrences(before, point) + 1
                           /\ point.quality <= u.quality => after = before
                           /\ \A x \in ToSet(before) \ {u, point} :
                                 Occurrences(after, x) = Occurrences(before, x)
        /\ ToSet(unique1) \subseteq ToSet(points1)

\* the second point tied with the retained first one and was dropped, the
\* third, of higher quality, took the place of the first
TieThenReplacement ==
    /\ min_pc = "dedup1"
    /\ Len(points1) = 3
    /\ points1[1] # points1[2]
    /\ points1[1].quality = points1[2].quality
    /\ CloseBy(points1[1], points1[2])
    /\ RetainedAfter(2) = <<points1[1]>>
    /\ CloseBy(points1[3], points1[1])
    /\ points1[3].quality > points1[1].quality
    /\ unique1 = <<points1[3]>>

(***************************************************************************)
(* Properties of the stored text                                           *)
(***************************************************************************)
\* base64 as RFC 4648 defines it: groups of four characters of the
\* alphabet, '=' only as the last one or two characters
StrictBase64(text) ==
    /\ Len(text) % 4 = 0
    /\ \A i \in DOMAIN text :
          /\ text[i] <= Pad
          /\ text[i] = Pad => /\ i >= Len(text) - 1
                              /\ text[Len(text)] = Pad

Untampered == codec_text = EncodeFaceData(codec_input)

\* C19: decode_face_data(encode_face_data(E)) equals E element for
\* element, and the stored text is the base64 of the UTF-8 JSON of the
\* list.
C19_FaceTemplateRoundTrip ==
    (codec_pc \in {"decoded", "verified"} /\ Untampered) =>
        /\ codec_decoded.ok
        /\ codec_decoded.value = codec_input
        /\ StrictBase64(codec_text)
        /\ 3 * Len(codec_text) >= 4 * Len(JsonDumpsList(codec_input))
        /\ B64DecodeText(codec_text).bytes[1] = 91
        /\ B64DecodeText(codec_text).bytes[Len(B64DecodeText(codec_text).bytes)] = 93

\* C19 witness: the encoding [-1.2, 10.5] stored and read back
C19_NegativeAndLargeReadBack ==
    /\ codec_pc = "decoded"
    /\ Untampered
    /\ codec_input = <<0 - 12, 105>>
    /\ codec_decoded.value = codec_input

\* C20: verification against a stored text that is not valid base64, or
\* whose bytes are not valid JSON, returns a failure naming the invalid
\* stored template (decode_face_data returns None, verify_face reports
\* success = false and match = false) and compares nothing.
C20_MalformedStoredTemplateReported ==
    (codec_pc = "verified"
        /\ (~StrictBase64(codec_text) \/ ~LoadStoredList(codec_text).ok)) =>
        /\ ~codec_decoded.ok
        /\ ~codec_result.success
        /\ ~codec_result.vr.match
        /\ codec_result.error = "Invalid stored face encoding format"
        /\ \A i \in DOMAIN codec_result.steps : codec_result.steps[i] # "score"

(***************************************************************************)
(* Properties of the extracted face encoding                               *)
(***************************************************************************)
\* C21: an encoding returned by extract_face_encoding has exactly 128
\* values: the first 128 collected coordinates when more were collected,
\* otherwise the collected ones followed by 0.0 up to 128.
C21_EncodingLengthFixed ==
    (extract_pc = "extracted" /\ extracted.ok) =>
        LET collected == CollectLandmarks(landmark_count, 1)
        IN  /\ Len(extracted.encoding) = 128
            /\ \A i \in 1..128 :
                  extracted.encoding[i] =
                      IF i <= Len(collected) THEN collected[i] ELSE 0

\* C21 witness: eleven key landmarks are present, 33 coordinates collected
\* and 95 zeros appended
C21_ShortEncodingPadded ==
    /\ extract_pc = "extracted"
    /\ extracted.ok
    /\ Len(CollectLandmarks(landmark_count, 1)) = 33
    /\ extracted.encoding[33] # 0
    /\ extracted.encoding[34] = 0

(***************************************************************************)
(* Properties of the quality assessors                                     *)
(***************************************************************************)
\* C23: assessing the same captured fingerprint sample again yields the
\* same score and the same accept / reject decision (score below 0.6 is
\* reject), for the image assessor and for the template assessor.
C23_AssessmentIsDeterministic ==
    /\ \A i, j \in DOMAIN image_scores :
          /\ image_scores[i] = image_scores[j]
          /\ (image_scores[i] < QualityGateNum) = (image_scores[j] < QualityGateNum)
    /\ \A i, j \in DOMAIN template_scores : template_scores[i] = template_scores[j]

(***************************************************************************)
(* Properties of the enrollment loop                                       *)
(***************************************************************************)
Count(op) == Cardinality({j \in DOMAIN enroll_trace : enroll_trace[j].op = op})

\* capture 1, extract 1, pause, capture 2, extract 2, pause, ...
InSampleOrder ==
    \A j \in DOMAIN enroll_trace :
        enroll_trace[j] =
            Event(<<"capture", "extract", "pause">>[((j - 1) % 3) + 1],
                  ((j - 1) \div 3) + 1)

\* C24: an enrollment call with num_samples = N captures and extracts the
\* samples in order 1..N.  On success there were exactly N captures, N
\* extractions and N-1 pauses, no pause after the last sample.  When sample
\* k fails there were exactly k captures and nothing after the failed step.
C24_SamplesProcessedInOrder ==
    /\ InSampleOrder
    /\ enroll_pc = "success" =>
          /\ Count("capture") = enroll_n
          /\ Count("extract") = enroll_n
          /\ Count("pause") = enroll_n - 1
    /\ enroll_pc = "failed" =>
          /\ Count("capture") = enroll_i + 1
          /\ enroll_outcomes[enroll_i + 1] # "ok"
          /\ \A k \in 1..enroll_i : enroll_outcomes[k] = "ok"
          /\ enroll_trace[Len(enroll_trace)].sample = enroll_i + 1
          /\ enroll_trace[Len(enroll_trace)].op # "pause"

\* C25: an enrollment that reports success fused at least one captured
\* sample: a request with num_samples <= 0 is not answered with success
\* and the enrollment route stores no template for it.
C25_SuccessNeedsASample ==
    last.route \in {"enroll_face", "enroll_fingerprint"} =>
        /\ last.http = 200 => (last.num_samples >= 1 /\ last.captures >= 1)
        /\ last.num_samples <= 0 => student = last.pre

(***************************************************************************)
(* Properties of the scorers on empty arguments                            *)
(***************************************************************************)
\* a template argument that is None, {} or holds no minutiae point
MissingTemplate(tpl) ==
    tpl.is_none \/ tpl.dict.is_empty \/ Len(tpl.dict.minutiae_points) = 0

\* C22: both scorers answer an empty or missing argument on either side
\* with success = false and match = false, never with a similarity that
\* counts; when success = true both arguments were non-empty.
C22_EmptyInputIsAFailure ==
    /\ face_pc = "compared" =>
          /\ (Len(encoding1) = 0 \/ Len(encoding2) = 0) =>
                 (~face_result[1].success /\ ~face_result[1].match
                     /\ face_result[1].error # "")
          /\ face_result[1].success => (Len(encoding1) > 0 /\ Len(encoding2) > 0)
    /\ min_pc = "compared" =>
          /\ (MissingTemplate(template1) \/ MissingTemplate(template2)) =>
                 (~fp_result.success /\ ~fp_result.match /\ fp_result.error # "")
          /\ fp_result.success =>
                 (~MissingTemplate(template1) /\ ~MissingTemplate(template2))

\* C22 witness: an empty encoding was compared with a real one, and a
\* template without points with a real one
C22_EmptySideCompared ==
    /\ face_pc = "compared"
    /\ Len(encoding1) = 0
    /\ Len(encoding2) > 0
    /\ min_pc = "compared"
    /\ ~MissingTemplate(template1)
    /\ ~template2.is_none /\ ~template2.dict.is_empty
    /\ MissingTemplate(template2)
    /\ ~fp_result.success

(***************************************************************************)
(* Further properties of deduplication and of the two scorers              *)
(***************************************************************************)
\* C26: any two points retained by _remove_duplicate_minutiae are more
\* than 5 distance units apart.
C26_RetainedPointsApart ==
    min_pc \in {"dedup1", "dedup2"} =>
        \A i, j \in DOMAIN unique1 :
            i < j => ~WithinDistance(unique1[i], unique1[j], DedupTolerance)

\* C28: for non-empty lists the similarity of P1 against P2 is the
\* similarity of P2 against P1.
C28_SimilarityIsSymmetric ==
    (min_pc # "input" /\ fp_result.success) =>
        fp_result.similarity = CalculateMinutiaeSimilarity(points2, points1)

\* C29: on the same stored and captured encoding (read in units of
\* 1/EncodingUnit) BiometricUtils.compare_face_encodings and
\* FaceRecognitionService.compare_face_encodings give the same match
\* decision.
C29_FacePathsAgree ==
    (face_pc # "input" /\ face_result[1].success) =>
        face_result[1].match = BasicCompareFaceEncodings(JsonList(encoding1), encoding2)

(***************************************************************************)
(* Further properties of the request flows                                 *)
(***************************************************************************)
\* what verify_student_biometrics went through for one modality
ModalityOf(stored, result, flag) ==
    [stored |-> stored, result |-> result, flag |-> flag]

BiometricsModalities ==
    {ModalityOf(last.pre.face_encoding, last.face, last.face_verified),
     ModalityOf(last.pre.fingerprint_template, last.fingerprint,
                last.fingerprint_verified)}

\* the stored text was compared with a captured sample and matched it
ComparedAndMatched(m) ==
    /\ IsStored(m.stored)
    /\ m.result.present
    /\ m.result.steps = <<"capture", "decode", "score">>
    /\ m.result.vr.success
    /\ m.result.vr.match

C30_StoredTemplatesInterchangeable ==
    /\ (last.pre.face_encoding.kind = "b64" /\ last.face.present) =>
          last.face.error \notin {"Invalid stored face encoding format",
                                  "Invalid stored face encoding"}
    /\ (last.pre.fingerprint_template.kind = "b64" /\ last.fingerprint.present) =>
          last.fingerprint.error \notin {"Invalid stored fingerprint template format",
                                         "Invalid stored fingerprint template"}

=============================================================================
